---------------------------- MODULE Spec2Model ----------------------------
(***************************************************************************)
(* The reconciliation core of lifecycle: the record model                  *)
(* (lifecycle/models.py), the diff/partition engine                        *)
(* (lifecycle/model_diff.py), the stage orchestrator                       *)
(* (lifecycle/__init__.py) and the static source                           *)
(* (lifecycle/source_staticconfig.py).  Each part has its own              *)
(* specification: Spec, SpecConfig, SpecStages, SpecShared, SpecUser.      *)
(*                                                                         *)
(* Python strings are sequences of one-character strings, so that          *)
(* sorted(str) -- which _values_differ applies to every Iterable value,    *)
(* strings included -- is computed as the code computes it.  A dict of     *)
(* Users is a function from usernames to User records, a tuple is a        *)
(* sequence.                                                               *)
(***************************************************************************)
EXTENDS Integers, Sequences, FiniteSets, TLC

VARIABLES
    source_users,    \* the source collection (mutated in place by calculate)
    target_users,    \* the target collection
    config,          \* the ModelDifferenceConfig handed to calculate
    source_arg,      \* the source collection as it was when calculate was called
    difference,      \* the ModelDifference returned by calculate
    pc,              \* "ready" before the call, "done" after it
    user_args,       \* the arguments of a User(...) construction
    new_user,        \* the User it constructed
    config_dict,     \* the dict handed to ModelDifferenceConfig.from_dict
    raised,          \* the exception a call ended with, NoException if none
    enabled_stages,  \* the target's config["stages"]
    handlers,        \* what the target's method of each stage does
    warnings,        \* the logging.warning calls, oldest first
    invoked,         \* the stage methods called, with their argument
    fetched,         \* the calls of calculate_difference (which fetches)
    source_config,   \* the config of the shared SourceStaticConfig
    targets,         \* the users and groups_patterns of each target
    results,         \* the ModelDifference calculate_difference gave each target
    ran,             \* the targets processed so far, in order
    operands,        \* the two records handed to ==
    verdict,         \* what == and the comparison of the hashes gave
    impl,            \* the class of the source or target that fetches users
    backing,         \* the accounts the backing system holds
    cache,           \* the object's self.users
    calls,           \* the calls of fetch_users and fetch, oldest first
    records,         \* the number of entries the server holds for an endpoint
    api_page_size,   \* config["api_page_size"]
    frames,          \* the active calls of _iter_pages, outermost first
    requested,       \* the page numbers requested, oldest first
    yielded,         \* the entries the generator yielded, oldest first
    now,             \* datetime.now().timestamp(), in seconds
    token_held,      \* self._token is not None
    token_expiry,    \* self._token_expiry
    sent,            \* the last authenticated request: when, with which token
    crm,             \* the entries the SuiteCRM server holds
    crm_before,      \* the entries it held when process_stages was called
    excluded_usernames,  \* config["excluded_usernames"]
    users_data,      \* self._users_data: the entry listed for each username
    groups_to_id,    \* self._groups_to_id with self._groups_to_attributes
    modifications    \* the modifying requests the target made

\* the state of a User construction
user_vars == <<user_args, new_user>>

\* the state of a run of process_stages
stage_vars == <<enabled_stages, handlers, warnings, invoked, fetched>>

\* the state of several targets sharing one source
shared_vars == <<source_config, targets, results, ran>>

\* the state of a comparison of two records
eq_vars == <<operands, verdict>>

\* the state of an object that fetches users
fetch_vars == <<impl, backing, cache, calls>>

\* the state of a walk through a paginated endpoint
page_vars == <<records, api_page_size, frames, requested, yielded>>

\* the state of the access token
token_vars == <<now, token_held, token_expiry, sent>>

\* the state of a SuiteCRM server and of the target that writes to it
crm_vars ==
    << crm, crm_before, excluded_usernames, users_data, groups_to_id,
       modifications >>

\* the state of the parts that talk to a backing system or compare records
other_vars == <<eq_vars, fetch_vars, page_vars, token_vars, crm_vars>>

vars ==
    << source_users, target_users, config, source_arg, difference, pc,
       user_vars, config_dict, raised, stage_vars, shared_vars, other_vars >>

(***************************************************************************)
(* Bounds of the model.                                                    *)
(***************************************************************************)
\* the longest tuple of groups a user holds
MaxGroups == 2
\* the longest tuple of e-mail addresses a user holds
MaxEmail == 2

(***************************************************************************)
(* Strings and their ordering (code-point order, as Python's sorted).      *)
(***************************************************************************)
Alphabet == <<" ", "1", "2", "3", "a", "b", "d", "p", "q", "u", "x", "y">>

Ord(c) == CHOOSE i \in 1..Len(Alphabet) : Alphabet[i] = c

CharLess(c, d) == Ord(c) < Ord(d)

RECURSIVE StrLess(_, _)
StrLess(s, t) ==
    IF s = <<>> THEN t # <<>>
    ELSE IF t = <<>> THEN FALSE
    ELSE IF s[1] = t[1] THEN StrLess(Tail(s), Tail(t))
    ELSE CharLess(s[1], t[1])

\* the empty dict
EmptyUsers == [u \in {} |-> u]

\* a dict restricted to some of its keys (a dict comprehension with a filter)
Restrict(users, keys) == [u \in keys |-> users[u]]

(***************************************************************************)
(* lifecycle/models.py                                                     *)
(***************************************************************************)
GroupFields == {"name", "description", "email"}

UserFields ==
    {"username", "forename", "surname", "fullname", "email", "groups", "locked"}

\* the Python type of each field's value: "str" and "tuple" are Iterable,
\* "bool" is not
FieldType ==
    [ name |-> "str", description |-> "str", email |-> "tuple",
      username |-> "str", forename |-> "str", surname |-> "str",
      fullname |-> "str", groups |-> "tuple", locked |-> "bool" ]

Group(name, description, email) ==
    [name |-> name, description |-> description, email |-> email]

\* the index of the first " " of a string, 0 when it has none
first_space(s) ==
    IF \E i \in 1..Len(s) : s[i] = " "
    THEN CHOOSE i \in 1..Len(s) :
             s[i] = " " /\ \A j \in 1..(i-1) : s[j] # " "
    ELSE 0

\* fullname.split(" ", maxsplit=1)[0]
split_first(s) ==
    IF first_space(s) = 0 THEN s ELSE SubSeq(s, 1, first_space(s) - 1)

\* fullname.split(" ", maxsplit=1)[-1]
split_last(s) ==
    IF first_space(s) = 0 THEN s ELSE SubSeq(s, first_space(s) + 1, Len(s))

\* mutant: an assembled fullname has no space between its two parts
User_unspaced(username, forename, surname, fullname, email, groups, locked) ==
    [ username |-> username,
      forename |->
          IF fullname # <<>> /\ forename = <<>>
          THEN split_first(fullname) ELSE forename,
      surname |->
          IF fullname # <<>> /\ surname = <<>>
          THEN split_last(fullname) ELSE surname,
      fullname |-> IF fullname # <<>> THEN fullname ELSE forename \o surname,
      email |-> email,
      groups |-> groups,
      locked |-> locked ]

\* User(...) followed by User.__post_init__
User(username, forename, surname, fullname, email, groups, locked) ==
    [ username |-> username,
      forename |->
          IF fullname # <<>> /\ forename = <<>>
          THEN split_first(fullname) ELSE forename,
      surname |->
          IF fullname # <<>> /\ surname = <<>>
          THEN split_last(fullname) ELSE surname,
      fullname |->
          IF fullname # <<>> THEN fullname
          ELSE IF forename # <<>> /\ surname # <<>>
               THEN forename \o <<" ">> \o surname
               ELSE forename \o surname,
      email |-> email,
      groups |-> groups,
      locked |-> locked ]

(***************************************************************************)
(* lifecycle/model_diff.py                                                 *)
(***************************************************************************)
\* A compiled pattern of the form  <lit>  or  <lit>.*  ; re.fullmatch on it.
fullmatch(pattern, string) ==
    IF pattern.any
    THEN /\ Len(string) >= Len(pattern.lit)
         /\ SubSeq(string, 1, Len(pattern.lit)) = pattern.lit
    ELSE string = pattern.lit

_list_group_matches(user, cfg) ==
    SelectSeq(user.groups,
              LAMBDA group :
                  \E i \in 1..Len(cfg.groups_patterns) :
                      fullmatch(cfg.groups_patterns[i], group.name))

sorted(value, type) ==
    IF type = "str" THEN SortSeq(value, CharLess) ELSE SortSeq(value, StrLess)

\* mutant: the values are compared as they are, unsorted
_values_differ_unsorted(source_value, target_value, type) ==
    source_value # target_value

_values_differ(source_value, target_value, type) ==
    IF type \in {"str", "tuple"}
    THEN sorted(source_value, type) # sorted(target_value, type)
    ELSE source_value # target_value

\* {g.name: g for g in target_groups}: a later group of the same name wins
target_by_name(target_groups) ==
    [n \in {target_groups[i].name : i \in 1..Len(target_groups)} |->
        target_groups[CHOOSE i \in 1..Len(target_groups) :
                          /\ target_groups[i].name = n
                          /\ \A j \in (i+1)..Len(target_groups) :
                                 target_groups[j].name # n]]

\* mutant: the length check of lines 207-208 left out
_groups_differ_no_len(source_groups, target_groups, cfg) ==
    \E i \in 1..Len(source_groups) :
        LET source_group == source_groups[i]
            by_name == target_by_name(target_groups)
        IN  \/ source_group.name \notin DOMAIN by_name
            \/ \E field \in cfg.group_fields :
                  _values_differ(source_group[field],
                                 by_name[source_group.name][field],
                                 FieldType[field])

_groups_differ(source_groups, target_groups, cfg) ==
    \/ Len(source_groups) # Len(target_groups)
    \/ \E i \in 1..Len(source_groups) :
          LET source_group == source_groups[i]
              by_name == target_by_name(target_groups)
          IN  \/ source_group.name \notin DOMAIN by_name
              \/ \E field \in cfg.group_fields :
                    _values_differ(source_group[field],
                                   by_name[source_group.name][field],
                                   FieldType[field])

\* mutant: every User field is compared, not only those of config.fields
_users_differ_all_fields(source_user, target_user, cfg) ==
    \E field \in UserFields :
        IF field = "groups"
        THEN _groups_differ(source_user.groups, target_user.groups, cfg)
        ELSE _values_differ(source_user[field], target_user[field],
                            FieldType[field])

_users_differ(source_user, target_user, cfg) ==
    \E field \in cfg.fields :
        IF field = "groups"
        THEN _groups_differ(source_user.groups, target_user.groups, cfg)
        ELSE _values_differ(source_user[field], target_user[field],
                            FieldType[field])

\* mutant: the merge starts from a copy of the source user
_merge_users_from_source(source_user, target_user, cfg) ==
    [field \in UserFields |-> source_user[field]]

\* mutant: the target's groups outside the patterns survive the merge
_merge_users_keep_unmatched(source_user, target_user, cfg) ==
    [field \in UserFields |->
        IF field \in cfg.fields
        THEN IF field = "groups"
             THEN source_user.groups \o
                  SelectSeq(target_user.groups,
                            LAMBDA group :
                                \A i \in 1..Len(cfg.groups_patterns) :
                                    ~fullmatch(cfg.groups_patterns[i],
                                               group.name))
             ELSE source_user[field]
        ELSE target_user[field]]

_merge_users(source_user, target_user, cfg) ==
    [field \in UserFields |->
        IF field \in cfg.fields THEN source_user[field] ELSE target_user[field]]

\* mutant: the source users' groups are left as they are
filter_source_skipped(source, cfg) == source

\* lines 250-252: the source users after the in-place scope filtering
filter_source(source, cfg) ==
    IF cfg.groups_patterns # <<>>
    THEN [u \in DOMAIN source |->
             [source[u] EXCEPT !.groups = _list_group_matches(source[u], cfg)]]
    ELSE source

\* mutant: added_users and removed_users take each other's keys
calculate_swapped(source, target, cfg) ==
    LET filtered == filter_source(source, cfg)
        both == DOMAIN filtered \cap DOMAIN target
        differing == {u \in both : _users_differ(filtered[u], target[u], cfg)}
    IN  [ source_users |-> filtered,
          target_users |-> target,
          added_users |-> Restrict(target, DOMAIN target \ DOMAIN filtered),
          removed_users |-> Restrict(filtered, DOMAIN filtered \ DOMAIN target),
          changed_users |->
              [u \in differing |-> _merge_users(filtered[u], target[u], cfg)],
          unchanged_users |-> Restrict(filtered, both \ differing) ]

\* mutant: a changed user is recorded in unchanged_users as well
calculate_overlap(source, target, cfg) ==
    LET filtered == filter_source(source, cfg)
        both == DOMAIN filtered \cap DOMAIN target
        differing == {u \in both : _users_differ(filtered[u], target[u], cfg)}
    IN  [ source_users |-> filtered,
          target_users |-> target,
          added_users |-> Restrict(filtered, DOMAIN filtered \ DOMAIN target),
          removed_users |-> Restrict(target, DOMAIN target \ DOMAIN filtered),
          changed_users |->
              [u \in differing |-> _merge_users(filtered[u], target[u], cfg)],
          unchanged_users |-> Restrict(filtered, both) ]

\* ModelDifference.calculate: the ModelDifference it returns
calculate(source, target, cfg) ==
    LET filtered == filter_source(source, cfg)
        both == DOMAIN filtered \cap DOMAIN target
        differing == {u \in both : _users_differ(filtered[u], target[u], cfg)}
    IN  [ source_users |-> filtered,
          target_users |-> target,
          added_users |-> Restrict(filtered, DOMAIN filtered \ DOMAIN target),
          removed_users |-> Restrict(target, DOMAIN target \ DOMAIN filtered),
          changed_users |->
              [u \in differing |-> _merge_users(filtered[u], target[u], cfg)],
          unchanged_users |-> Restrict(filtered, both \ differing) ]

(***************************************************************************)
(* The inputs of the diff.  A group's name is its identity within a user's  *)
(* groups (target_by_name is keyed by it), so two groups of one user that   *)
(* share a name are the same group; a tuple may still hold a group more     *)
(* than once, as SourceStaticConfig.fetch_groups appends on every fetch.    *)
(***************************************************************************)
Usernames == {<<"u", "1">>, <<"u", "2">>, <<"u", "3">>}

\* the user whose records vary in every field
Focus == <<"u", "2">>

NoStr == <<>>

GroupDomain ==
    { Group(<<"p", "1">>, NoStr, <<>>),
      Group(<<"p", "1">>, <<"a", "b">>, << <<"x">>, <<"y">> >>),
      Group(<<"p", "1">>, <<"b", "a">>, << <<"y">>, <<"x">> >>),
      Group(<<"d", "1">>, NoStr, <<>>) }

\* every sequence over S of length at most n
SeqsUpTo(S, n) == UNION {[1..k -> S] : k \in 0..n}

GroupTuples ==
    { gs \in SeqsUpTo(GroupDomain, MaxGroups) :
        \A i, j \in 1..Len(gs) : gs[i].name = gs[j].name => gs[i] = gs[j] }

EmailTuples == SeqsUpTo({<<"x">>, <<"y">>}, MaxEmail)

\* the records the focus user may have: one aspect varies at a time
UserDomain(u) ==
    { User(u, NoStr, NoStr, NoStr, <<>>, <<>>, locked) : locked \in BOOLEAN }
    \cup { User(u, <<"a">>, <<"b">>, NoStr, <<>>, <<>>, FALSE),
           User(u, NoStr, NoStr, <<"b", " ", "a">>, <<>>, <<>>, FALSE) }
    \cup { User(u, NoStr, NoStr, NoStr, email, <<>>, FALSE) :
               email \in EmailTuples }
    \cup { User(u, NoStr, NoStr, NoStr, <<>>, groups, FALSE) :
               groups \in GroupTuples }

\* the records of the other users: bare, or holding one out-of-scope group
PlainDomain(u) ==
    { User(u, NoStr, NoStr, NoStr, <<>>, <<>>, FALSE),
      User(u, NoStr, NoStr, NoStr, <<>>,
           <<Group(<<"d", "1">>, NoStr, <<>>)>>, FALSE) }

\* dicts over some of the keys, the record of key u drawn from domain[u]
Collections(keys, domain) ==
    UNION { { c \in [ks -> UNION {domain[u] : u \in ks}] :
                \A u \in ks : c[u] \in domain[u] } : ks \in SUBSET keys }

PlainCollections ==
    Collections(Usernames, [u \in Usernames |-> PlainDomain(u)])

FocusCollections ==
    Collections({Focus}, [u \in {Focus} |-> UserDomain(u)])

\* up to three users with plain records, or the focus user alone with any
Inputs ==
    (PlainCollections \X PlainCollections)
    \cup (FocusCollections \X FocusCollections)

Pattern(lit, any) == [lit |-> lit, any |-> any]

PatternLists ==
    { <<>>,
      <<Pattern(NoStr, TRUE)>>,
      <<Pattern(<<"q">>, TRUE), Pattern(<<"p">>, TRUE)>>,
      <<Pattern(<<"q">>, TRUE)>> }

FieldSets ==
    { {"username"},
      {"username", "groups"},
      {"username", "fullname", "email", "locked"},
      UserFields }

GroupFieldSets == { GroupFields, {"name", "description"} }

ModelDifferenceConfig(fields, groups_patterns, group_fields) ==
    [ fields |-> fields,
      groups_patterns |-> groups_patterns,
      group_fields |-> group_fields ]

Configs ==
    { ModelDifferenceConfig(f, p, g) :
        f \in FieldSets, p \in PatternLists, g \in GroupFieldSets }

NoDifference ==
    [ source_users |-> EmptyUsers, target_users |-> EmptyUsers,
      added_users |-> EmptyUsers, removed_users |-> EmptyUsers,
      changed_users |-> EmptyUsers, unchanged_users |-> EmptyUsers ]

NoException == [type |-> "None", value |-> NoStr]

\* no User is being constructed
NoUserRun ==
    /\ user_args = [forename |-> NoStr, surname |-> NoStr, fullname |-> NoStr]
    /\ new_user = User(NoStr, NoStr, NoStr, NoStr, <<>>, <<>>, FALSE)

\* no config dict is being parsed
NoParseRun ==
    /\ config_dict = [fields |-> <<>>]
    /\ raised = NoException

\* no process_stages is running
NoStageRun ==
    /\ enabled_stages = <<>>
    /\ handlers = <<>>
    /\ warnings = <<>>
    /\ invoked = <<>>
    /\ fetched = 0

\* no source is shared between targets
NoSharedRun ==
    /\ source_config = [users |-> <<>>, groups |-> <<>>]
    /\ targets = <<>>
    /\ results = <<>>
    /\ ran = <<>>

\* no two records are being compared
NoEqRun ==
    /\ operands = <<>>
    /\ verdict = [eq |-> FALSE, hash_eq |-> FALSE]

\* no object fetches users
NoFetchRun ==
    /\ impl = "None"
    /\ backing = {}
    /\ cache = EmptyUsers
    /\ calls = <<>>

\* no paginated endpoint is being read
NoPageRun ==
    /\ records = 0
    /\ api_page_size = 1
    /\ frames = <<>>
    /\ requested = <<>>
    /\ yielded = <<>>

NoRequest ==
    [auth |-> FALSE, at |-> 0, exp |-> 0, reauth |-> FALSE,
     held |-> FALSE, held_exp |-> 0]

\* no request was made
NoTokenRun ==
    /\ now = 0
    /\ token_held = FALSE
    /\ token_expiry = 0
    /\ sent = NoRequest

\* the empty dict
EmptyDict == [k \in {} |-> k]

NoEntries == [users |-> {}, groups |-> {}, emails |-> {}]

\* no SuiteCRM server is written to
NoCrmRun ==
    /\ crm = NoEntries
    /\ crm_before = NoEntries
    /\ excluded_usernames = {}
    /\ users_data = EmptyDict
    /\ groups_to_id = EmptyDict
    /\ modifications = {}

NoOtherRun ==
    NoEqRun /\ NoFetchRun /\ NoPageRun /\ NoTokenRun /\ NoCrmRun

\* no difference is being calculated
NoDiffRun ==
    /\ source_users = EmptyUsers
    /\ target_users = EmptyUsers
    /\ source_arg = EmptyUsers
    /\ config = ModelDifferenceConfig({}, <<>>, {})
    /\ difference = NoDifference

Init ==
    \E input \in Inputs, cfg \in Configs :
        /\ source_users = input[1]
        /\ target_users = input[2]
        /\ source_arg = input[1]
        /\ config = cfg
        /\ difference = NoDifference
        /\ pc = "ready"
        /\ NoUserRun /\ NoParseRun /\ NoStageRun /\ NoSharedRun /\ NoOtherRun

\* one call of ModelDifference.calculate(source_users, target_users, config)
Calculate ==
    /\ pc = "ready"
    /\ difference' = calculate(source_users, target_users, config)
    /\ source_users' = filter_source(source_users, config)
    /\ pc' = "done"
    /\ UNCHANGED <<target_users, config, source_arg>>
    /\ UNCHANGED <<user_vars, config_dict, raised, stage_vars, shared_vars>>
    /\ UNCHANGED other_vars

Next == Calculate

Spec == Init /\ [][Next]_vars

(***************************************************************************)
(* Vocabulary of the properties.                                           *)
(***************************************************************************)
Added == DOMAIN difference.added_users
Removed == DOMAIN difference.removed_users
Changed == DOMAIN difference.changed_users
Unchanged == DOMAIN difference.unchanged_users

SourceKeys == DOMAIN source_arg
TargetKeys == DOMAIN target_users
Shared == SourceKeys \cap TargetKeys

GroupsCompared == "groups" \in config.fields
Filtering == config.groups_patterns # <<>>

\* the group name matches at least one configured pattern
InScope(name) ==
    \E i \in 1..Len(config.groups_patterns) :
        fullmatch(config.groups_patterns[i], name)

\* the user holds a group that the configured patterns leave out
HoldsOutOfScope(user) ==
    /\ Filtering
    /\ \E i \in 1..Len(user.groups) : ~InScope(user.groups[i].name)

OnlyIn(k, part) ==
    /\ k \in part
    /\ \A other \in {Added, Removed, Changed, Unchanged} \ {part} :
           k \notin other

(***************************************************************************)
(* C1.  With source keys A \cup {k} and target keys B \cup {k}, A and B    *)
(* disjoint and k's two records identical, every key of A is in            *)
(* added_users only, every key of B in removed_users only, and k in        *)
(* unchanged_users.                                                        *)
(***************************************************************************)
C1_AddedRemovedOnly ==
    /\ \A a \in SourceKeys \ TargetKeys : OnlyIn(a, Added)
    /\ \A b \in TargetKeys \ SourceKeys : OnlyIn(b, Removed)

C2_Partition ==
    pc = "done" =>
        /\ \A P, Q \in {Added, Removed, Changed, Unchanged} :
               P # Q => P \cap Q = {}
        /\ Added \cup Removed \cup Changed \cup Unchanged
               = SourceKeys \cup TargetKeys

C2_Witness ==
    /\ pc = "done"
    /\ Added # {} /\ Removed # {} /\ Changed # {}

C4_MergeCorrect ==
    pc = "done" =>
        \A k \in Changed :
            \A field \in UserFields :
                LET merged == difference.changed_users[k][field]
                IN  IF field \in config.fields
                    THEN /\ merged = source_users[k][field]
                         /\ field # "groups" => merged = source_arg[k][field]
                    ELSE merged = target_users[k][field]

C4_Witness ==
    /\ pc = "done"
    /\ \E k \in Changed :
          /\ \E field \in config.fields :
                /\ source_arg[k][field] # target_users[k][field]
                /\ difference.changed_users[k][field] = source_arg[k][field]
          /\ \E field \in UserFields \ config.fields :
                /\ source_arg[k][field] # target_users[k][field]
                /\ difference.changed_users[k][field] = target_users[k][field]

(***************************************************************************)
(* C5.  Group-scope exclusion (classification): with groups compared and a *)
(* non-empty groups_patterns, a group whose name matches no pattern never  *)
(* causes a user to be classified changed, on whichever side it is held;   *)
(* in particular a user all of whose source and target groups are out of   *)
(* scope, the other compared fields being equal, is unchanged.             *)
(***************************************************************************)
AllOutOfScope(user) ==
    \A i \in 1..Len(user.groups) : ~InScope(user.groups[i].name)

OtherComparedEqual(k) ==
    \A field \in config.fields \ {"groups"} :
        source_arg[k][field] = target_users[k][field]

WithSourceGroup(k, group) ==
    [source_arg EXCEPT ![k].groups = Append(@, group)]

RECURSIVE InScopeOnly(_)
InScopeOnly(groups) ==
    IF groups = <<>> THEN <<>>
    ELSE IF InScope(Head(groups).name)
         THEN <<Head(groups)>> \o InScopeOnly(Tail(groups))
         ELSE InScopeOnly(Tail(groups))

\* C6: the merged groups are the source user's in-scope groups, in order
C6_MergedGroups ==
    (pc = "done" /\ GroupsCompared /\ Filtering) =>
        \A k \in Changed :
            LET merged == difference.changed_users[k].groups
            IN  /\ merged = InScopeOnly(source_arg[k].groups)
                /\ \A i \in 1..Len(merged) : InScope(merged[i].name)

C6_Witness ==
    /\ pc = "done" /\ GroupsCompared /\ Filtering
    /\ \E k \in Changed :
          /\ HoldsOutOfScope(target_users[k])
          /\ HoldsOutOfScope(source_arg[k])
          /\ difference.changed_users[k].groups # <<>>

(***************************************************************************)
(* C7.  With groups compared, a target user that holds a group whose name  *)
(* matches none of the configured patterns is classified changed, even     *)
(* when the source user holds exactly the same groups.                     *)
(***************************************************************************)
\* C7 as stated: a target user holding an out-of-scope group is changed
C7_AsStated ==
    (pc = "done" /\ GroupsCompared) =>
        \A k \in Shared : HoldsOutOfScope(target_users[k]) => k \in Changed

\* the names of the groups are pairwise distinct
DistinctNames(groups) ==
    \A i, j \in 1..Len(groups) : groups[i].name = groups[j].name => i = j

(***************************************************************************)
(* C8.  Order-insensitivity: for a user present in both collections,       *)
(* permuting the user's email, permuting the user's groups, or permuting   *)
(* the email inside one of the user's groups never changes whether the     *)
(* user is classified changed or unchanged.                                *)
(***************************************************************************)
\* every reordering of a tuple
Reorderings(seq) ==
    { [i \in 1..Len(seq) |-> seq[p[i]]] : p \in Permutations(1..Len(seq)) }

\* the records obtained from a user by one of the three permutations
Reordered(user) ==
    { [user EXCEPT !.email = e] : e \in Reorderings(user.email) }
    \cup { [user EXCEPT !.groups = gs] : gs \in Reorderings(user.groups) }
    \cup UNION { { [user EXCEPT !.groups[i].email = e] :
                       e \in Reorderings(user.groups[i].email) } :
                   i \in 1..Len(user.groups) }

IsChanged(source, target, k) ==
    k \in DOMAIN calculate(source, target, config).changed_users

Names(groups) == {groups[i].name : i \in 1..Len(groups)}

\* the number of times a tuple holds an element
Count(seq, e) == Cardinality({i \in 1..Len(seq) : seq[i] = e})

\* the values of one group attribute differ (email is an unordered
\* collection, every other attribute a plain value)
AttributeDiffers(field, a, b) ==
    IF field = "email"
    THEN \E e \in {a[i] : i \in 1..Len(a)} \cup {b[i] : i \in 1..Len(b)} :
             Count(a, e) # Count(b, e)
    ELSE a # b

GroupsDifferAsStated(source_groups, target_groups, cfg) ==
    \/ Len(source_groups) # Len(target_groups)
    \/ Names(source_groups) # Names(target_groups)
    \/ \E i \in 1..Len(source_groups), j \in 1..Len(target_groups) :
          /\ source_groups[i].name = target_groups[j].name
          /\ \E field \in cfg.group_fields :
                AttributeDiffers(field, source_groups[i][field],
                                 target_groups[j][field])

\* C10 as stated: _groups_differ decides exactly the stated difference
C10_AsStated ==
    pc = "done" =>
        \A k \in Shared :
            _groups_differ(source_users[k].groups, target_users[k].groups,
                           config)
            = GroupsDifferAsStated(source_users[k].groups,
                                   target_users[k].groups, config)

(***************************************************************************)
(* C11.  A compared field that is not an unordered collection (username,   *)
(* forename, surname, fullname, locked, a group's description) is compared *)
(* directly: a user whose source and target values for such a field are    *)
(* unequal is classified changed, also when one string is a rearrangement  *)
(* of the characters of the other.                                         *)
(***************************************************************************)
\* the User fields that hold a plain value
DirectFields == {"username", "forename", "surname", "fullname", "locked"}

\* a group of the source user (as calculate compares it) and the group of
\* the same name of the target user have unequal descriptions
DescriptionsUnequal(k) ==
    \E i \in 1..Len(source_users[k].groups),
       j \in 1..Len(target_users[k].groups) :
        /\ source_users[k].groups[i].name = target_users[k].groups[j].name
        /\ source_users[k].groups[i].description
               # target_users[k].groups[j].description

\* C11 as stated: unequal values of a directly compared field make the user
\* changed
C11_AsStated ==
    pc = "done" =>
        \A k \in Shared :
            ( \/ \E field \in config.fields \cap DirectFields :
                     source_arg[k][field] # target_users[k][field]
              \/ /\ GroupsCompared
                 /\ "description" \in config.group_fields
                 /\ DescriptionsUnequal(k) ) => k \in Changed

(***************************************************************************)
(* lifecycle/__init__.py: TargetBase.process_stages.  The run is followed  *)
(* step by step: pc is "idle" before the call, the name of the stage the   *)
(* loop of line 141 is about to look at while it runs, "returned" once it  *)
(* has returned and "raised" once an exception has left it.                *)
(***************************************************************************)
\* the longest config["stages"] list
MaxStages == 3

\* line 141: the stages, in the order the loop visits them
Stages == <<"users_create", "users_cleanup", "users_sync">>

StageNames == {Stages[i] : i \in 1..Len(Stages)}

\* what calling the target's method of a stage does: TargetBase's own method
\* raises NotImplementedError; a method the target class overrides returns,
\* or raises what it (or a collaborator it calls) raises
Behaviours ==
    { [implemented |-> FALSE, raises |-> "NotImplementedError"],
      [implemented |-> TRUE, raises |-> "None"],
      [implemented |-> TRUE, raises |-> "NotImplementedError"],
      [implemented |-> TRUE, raises |-> "ConnectionError"] }

StageLists == SeqsUpTo(StageNames, MaxStages)

\* mutant: a stage is run whether or not it is configured
Enabled_always(stage) == TRUE

\* stage in enabled_stages
Enabled(stage) == \E i \in 1..Len(enabled_stages) : enabled_stages[i] = stage

\* where the loop goes after a stage
After(stage) ==
    IF \E i \in 1..(Len(Stages) - 1) : Stages[i] = stage
    THEN Stages[(CHOOSE i \in 1..Len(Stages) : Stages[i] = stage) + 1]
    ELSE "returned"

\* the collections the source and the target hand to calculate_difference
StageInputs ==
    { <<EmptyUsers, EmptyUsers>> }
    \cup { <<s, t>> \in PlainCollections \X PlainCollections :
             /\ DOMAIN s = {<<"u", "1">>, <<"u", "2">>}
             /\ DOMAIN t = {<<"u", "2">>, <<"u", "3">>}
             /\ s[<<"u", "1">>].groups = <<>>
             /\ t[<<"u", "3">>].groups = <<>> }

StageInit ==
    \E stages \in StageLists, h \in [StageNames -> Behaviours],
       input \in StageInputs, patterns \in PatternLists :
        /\ source_users = input[1]
        /\ target_users = input[2]
        /\ source_arg = input[1]
        /\ config = ModelDifferenceConfig(UserFields, patterns, GroupFields)
        /\ difference = NoDifference
        /\ pc = "idle"
        /\ enabled_stages = stages
        /\ handlers = h
        /\ warnings = <<>>
        /\ invoked = <<>>
        /\ fetched = 0
        /\ raised = NoException
        /\ config_dict = [fields |-> <<>>]
        /\ NoUserRun /\ NoSharedRun /\ NoOtherRun

\* mutant: the difference is calculated before the stage list is looked at
NoStages_calculates ==
    /\ pc = "idle"
    /\ enabled_stages = <<>>
    /\ fetched' = fetched + 1
    /\ difference' = calculate(source_users, target_users, config)
    /\ source_users' = filter_source(source_users, config)
    /\ warnings' = Append(warnings, [text |-> "No stages set", stage |-> ""])
    /\ pc' = "returned"
    /\ UNCHANGED <<target_users, config, source_arg>>
    /\ UNCHANGED <<enabled_stages, handlers, invoked, raised>>
    /\ UNCHANGED <<user_vars, config_dict, shared_vars>>
    /\ UNCHANGED other_vars

\* lines 132-135: no stage is configured
NoStages ==
    /\ pc = "idle"
    /\ enabled_stages = <<>>
    /\ warnings' = Append(warnings, [text |-> "No stages set", stage |-> ""])
    /\ pc' = "returned"
    /\ UNCHANGED <<source_users, target_users, config, source_arg, difference>>
    /\ UNCHANGED <<enabled_stages, handlers, invoked, fetched, raised>>
    /\ UNCHANGED <<user_vars, config_dict, shared_vars>>
    /\ UNCHANGED other_vars

\* lines 137-139 and 154-168: the difference is calculated
CalculateDifference ==
    /\ pc = "idle"
    /\ enabled_stages # <<>>
    /\ fetched' = fetched + 1
    /\ difference' = calculate(source_users, target_users, config)
    /\ source_users' = filter_source(source_users, config)
    /\ pc' = Stages[1]
    /\ UNCHANGED <<target_users, config, source_arg>>
    /\ UNCHANGED <<enabled_stages, handlers, warnings, invoked, raised>>
    /\ UNCHANGED <<user_vars, config_dict, shared_vars>>
    /\ UNCHANGED other_vars

\* line 142: the stage is not in config["stages"]
SkipStage ==
    /\ pc \in StageNames
    /\ ~Enabled(pc)
    /\ pc' = After(pc)
    /\ UNCHANGED <<source_users, target_users, config, source_arg, difference>>
    /\ UNCHANGED <<stage_vars, raised, user_vars, config_dict, shared_vars>>
    /\ UNCHANGED other_vars

\* lines 143-145: the method of the stage is called and returns
StageReturns ==
    /\ pc \in StageNames
    /\ Enabled(pc)
    /\ handlers[pc].raises = "None"
    /\ invoked' = Append(invoked, [stage |-> pc, difference |-> difference])
    /\ pc' = After(pc)
    /\ UNCHANGED <<source_users, target_users, config, source_arg, difference>>
    /\ UNCHANGED <<enabled_stages, handlers, warnings, fetched, raised>>
    /\ UNCHANGED <<user_vars, config_dict, shared_vars>>
    /\ UNCHANGED other_vars

\* mutant: the NotImplementedError of a stage is not caught
StageNotImplemented_uncaught ==
    /\ pc \in StageNames
    /\ Enabled(pc)
    /\ handlers[pc].raises = "NotImplementedError"
    /\ invoked' = Append(invoked, [stage |-> pc, difference |-> difference])
    /\ raised' = [type |-> "NotImplementedError", value |-> pc]
    /\ pc' = "raised"
    /\ UNCHANGED <<source_users, target_users, config, source_arg, difference>>
    /\ UNCHANGED <<enabled_stages, handlers, warnings, fetched>>
    /\ UNCHANGED <<user_vars, config_dict, shared_vars>>
    /\ UNCHANGED other_vars

\* lines 143-152: the call raises NotImplementedError, which is caught
\* whoever raised it; a warning is logged and the loop continues
StageNotImplemented ==
    /\ pc \in StageNames
    /\ Enabled(pc)
    /\ handlers[pc].raises = "NotImplementedError"
    /\ invoked' = Append(invoked, [stage |-> pc, difference |-> difference])
    /\ warnings' = Append(warnings, [text |-> "not implemented", stage |-> pc])
    /\ pc' = After(pc)
    /\ UNCHANGED <<source_users, target_users, config, source_arg, difference>>
    /\ UNCHANGED <<enabled_stages, handlers, fetched, raised>>
    /\ UNCHANGED <<user_vars, config_dict, shared_vars>>
    /\ UNCHANGED other_vars

\* lines 143-146: the call raises another exception, which leaves
\* process_stages
StageRaises ==
    /\ pc \in StageNames
    /\ Enabled(pc)
    /\ handlers[pc].raises \notin {"None", "NotImplementedError"}
    /\ invoked' = Append(invoked, [stage |-> pc, difference |-> difference])
    /\ raised' = [type |-> handlers[pc].raises, value |-> pc]
    /\ pc' = "raised"
    /\ UNCHANGED <<source_users, target_users, config, source_arg, difference>>
    /\ UNCHANGED <<enabled_stages, handlers, warnings, fetched>>
    /\ UNCHANGED <<user_vars, config_dict, shared_vars>>
    /\ UNCHANGED other_vars

StageNext ==
    \/ NoStages
    \/ CalculateDifference
    \/ SkipStage
    \/ StageReturns
    \/ StageNotImplemented
    \/ StageRaises

SpecStages == StageInit /\ [][StageNext]_vars

(***************************************************************************)
(* Vocabulary of the properties of process_stages.                         *)
(***************************************************************************)
\* the number of calls of the method of a stage
Calls(stage) ==
    Cardinality({i \in 1..Len(invoked) : invoked[i].stage = stage})

\* the number of "not implemented" warnings that name a stage
NotImplementedWarnings(stage) ==
    Cardinality({i \in 1..Len(warnings) :
                    /\ warnings[i].text = "not implemented"
                    /\ warnings[i].stage = stage})

AllEnabled == \A stage \in StageNames : Enabled(stage)

\* every method the target implements returns normally
ImplementedReturn ==
    \A stage \in StageNames :
        handlers[stage].implemented => handlers[stage].raises = "None"

(***************************************************************************)
(* C12.  For a target that implements only some of users_create,           *)
(* users_cleanup and users_sync (its implemented methods returning         *)
(* normally), process_stages with all three stages enabled calls every     *)
(* implemented stage, logs one "not implemented" warning per unimplemented *)
(* stage and goes on with the following stages, and does not raise.        *)
(***************************************************************************)
\* C12: one warning per unimplemented stage, every stage called, no raise
C12_Unimplemented ==
    (AllEnabled /\ ImplementedReturn) =>
        /\ pc # "raised"
        /\ pc = "returned" =>
               /\ \A stage \in StageNames :
                      /\ Calls(stage) = 1
                      /\ NotImplementedWarnings(stage) =
                             IF handlers[stage].implemented THEN 0 ELSE 1
               /\ Len(warnings) =
                      Cardinality({stage \in StageNames :
                                      ~handlers[stage].implemented})

C12_Witness ==
    /\ pc = "returned"
    /\ AllEnabled
    /\ handlers["users_create"] = [implemented |-> TRUE, raises |-> "None"]
    /\ ~handlers["users_cleanup"].implemented
    /\ ~handlers["users_sync"].implemented
    /\ Calls("users_create") = 1
    /\ Len(warnings) = 2

(***************************************************************************)
(* C13.  In every run of process_stages the stage methods are called one   *)
(* after the other in the fixed order users_create, users_cleanup,         *)
(* users_sync, whatever the order of the names in config["stages"]; a      *)
(* stage is called at most once and only if its name is in the list; and   *)
(* every call receives the same difference, which is calculated exactly    *)
(* once, before the first stage.                                           *)
(***************************************************************************)
\* the place of a stage in the fixed order
Position(stage) == CHOOSE i \in 1..Len(Stages) : Stages[i] = stage

\* C13: the calls follow the fixed order, each at most once and only when
\* configured, all with the one difference calculated before them
C13_FixedOrder ==
    /\ \A i, j \in 1..Len(invoked) :
           i < j => Position(invoked[i].stage) < Position(invoked[j].stage)
    /\ \A i \in 1..Len(invoked) :
           /\ \E n \in 1..Len(enabled_stages) :
                  enabled_stages[n] = invoked[i].stage
           /\ invoked[i].difference = difference
           /\ difference = calculate(source_arg, target_users, config)
    /\ fetched = IF pc = "idle" \/ enabled_stages = <<>> THEN 0 ELSE 1

C13_Witness ==
    /\ pc = "returned"
    /\ Len(enabled_stages) = 3
    /\ enabled_stages[1] = "users_sync"
    /\ enabled_stages[2] = "users_create"
    /\ enabled_stages[3] = "users_cleanup"
    /\ Len(invoked) = 3
    /\ invoked[1].stage = "users_create"
    /\ invoked[3].stage = "users_sync"
    /\ DOMAIN difference.changed_users # {}
    /\ fetched = 1

(***************************************************************************)
(* C14.  If config["stages"] is empty, process_stages logs a "No stages"   *)
(* warning and returns without fetching users, without calculating a       *)
(* difference and without calling any stage method.                        *)
(***************************************************************************)
\* C14: an empty stage list gives the warning and nothing else
C14_NoStages ==
    (enabled_stages = <<>> /\ pc # "idle") =>
        /\ pc = "returned"
        /\ warnings = <<[text |-> "No stages set", stage |-> ""]>>
        /\ fetched = 0
        /\ difference = NoDifference
        /\ source_users = source_arg
        /\ invoked = <<>>

C14_Witness ==
    /\ enabled_stages = <<>>
    /\ pc = "returned"
    /\ source_arg # EmptyUsers
    /\ \E stage \in StageNames : handlers[stage].implemented

(***************************************************************************)
(* C15.  An error raised by an implemented stage method (also one raised   *)
(* by a collaborator called inside it) is not caught by process_stages: it *)
(* propagates unmodified, the run aborts and no later stage is called.     *)
(***************************************************************************)
\* C15 as stated: whatever an implemented method raises leaves process_stages
C15_AsStated ==
    \A i \in 1..Len(invoked) :
        LET handler == handlers[invoked[i].stage]
        IN  (handler.implemented /\ handler.raises # "None") =>
                /\ i = Len(invoked)
                /\ pc = "raised"
                /\ raised.type = handler.raises
                /\ raised.value = invoked[i].stage
                /\ NotImplementedWarnings(invoked[i].stage) = 0

(***************************************************************************)
(* C16.  ModelDifference.calculate is a pure function of its arguments:    *)
(* after it returns, every user of the source collection and of the target *)
(* collection has the field values (groups included) it had before the     *)
(* call.                                                                   *)
(***************************************************************************)
\* C16 as stated: the source users are as they were handed in
C16_AsStated ==
    pc = "done" => source_users = source_arg

(***************************************************************************)
(* lifecycle/source_staticconfig.py and TargetBase.calculate_difference:   *)
(* several targets processed one after the other against one               *)
(* SourceStaticConfig object.  source_users is the object's self.users,    *)
(* source_arg what it was before the first target was processed.           *)
(***************************************************************************)
\* the number of targets that share the source
MaxTargets == 2

TargetIds == 1..MaxTargets

\* SourceStaticConfig.fetch_users
fetch_users(users, cfg, refresh) ==
    IF ~refresh /\ users # EmptyUsers
    THEN users
    ELSE [u \in DOMAIN cfg.users |->
             User(u, NoStr, NoStr, NoStr, <<>>, <<>>, FALSE)]

\* SourceStaticConfig.fetch_groups: every configured group is appended to
\* the groups of the users that list its name
fetch_groups(users, cfg) ==
    [u \in DOMAIN users |->
        [users[u] EXCEPT
            !.groups = @ \o SelectSeq(cfg.groups,
                                      LAMBDA group : group.name \in cfg.users[u])]]

\* SourceStaticConfig.fetch
fetch(users, cfg) == fetch_groups(fetch_users(users, cfg, FALSE), cfg)

\* the source users calculate_difference hands to calculate
\* (__init__.py lines 160-161)
fetched_source(users, cfg) == fetch_users(fetch(users, cfg), cfg, FALSE)

\* the config calculate_difference builds (__init__.py lines 163-166)
diff_config(groups_patterns) ==
    ModelDifferenceConfig(UserFields, groups_patterns, GroupFields)

\* TargetBase.calculate_difference: the ModelDifference it returns
calculate_difference(users, cfg, target) ==
    calculate(fetched_source(users, cfg), target.users,
              diff_config(target.groups_patterns))

\* the groups of the source config
ConfigGroups ==
    { <<Group(<<"p", "1">>, NoStr, <<>>)>>,
      <<Group(<<"d", "1">>, NoStr, <<>>)>>,
      <<Group(<<"p", "1">>, NoStr, <<>>), Group(<<"d", "1">>, NoStr, <<>>)>> }

\* the users of the source config: for each user the group names it lists
ConfigUsers ==
    { EmptyUsers }
    \cup { [u \in {<<"u", "1">>} |-> names] :
               names \in SUBSET {<<"p", "1">>, <<"d", "1">>} }

\* what a target's fetch_users returns
TargetUsers ==
    { EmptyUsers,
      [u \in {<<"u", "1">>} |->
          User(u, NoStr, NoStr, NoStr, <<>>,
               <<Group(<<"p", "1">>, NoStr, <<>>)>>, FALSE)] }

SharedInit ==
    \E users \in ConfigUsers, groups \in ConfigGroups,
       ts \in [TargetIds ->
                  [users : TargetUsers, groups_patterns : PatternLists]],
       cli_fetched \in BOOLEAN :
        /\ source_config = [users |-> users, groups |-> groups]
        /\ source_users =
               IF cli_fetched
               THEN fetch(EmptyUsers, [users |-> users, groups |-> groups])
               ELSE EmptyUsers
        /\ source_arg = source_users
        /\ targets = ts
        /\ results = [t \in TargetIds |-> NoDifference]
        /\ ran = <<>>
        /\ target_users = EmptyUsers
        /\ config = diff_config(<<>>)
        /\ difference = NoDifference
        /\ pc = "ready"
        /\ raised = NoException
        /\ config_dict = [fields |-> <<>>]
        /\ NoUserRun /\ NoStageRun /\ NoOtherRun

\* target t calls calculate_difference (__init__.py lines 154-168)
ProcessTarget(t) ==
    /\ \A i \in 1..Len(ran) : ran[i] # t
    /\ target_users' = targets[t].users
    /\ config' = diff_config(targets[t].groups_patterns)
    /\ difference' = calculate_difference(source_users, source_config, targets[t])
    /\ source_users' =
           filter_source(fetched_source(source_users, source_config), config')
    /\ results' = [results EXCEPT ![t] = difference']
    /\ ran' = Append(ran, t)
    /\ UNCHANGED <<source_arg, pc, source_config, targets>>
    /\ UNCHANGED <<user_vars, config_dict, raised, stage_vars>>
    /\ UNCHANGED other_vars

SharedNext == \E t \in TargetIds : ProcessTarget(t)

SpecShared == SharedInit /\ [][SharedNext]_vars

(***************************************************************************)
(* C17.  Runs against different targets that share one source share no     *)
(* mutable data: the difference calculate_difference gives a target is the *)
(* same whether or not another target (possibly with other group patterns) *)
(* was processed against the same source object before.                    *)
(***************************************************************************)
\* C17 as stated: every target gets the difference it gets when it is the
\* first to be processed
C17_AsStated ==
    \A i \in 1..Len(ran) :
        results[ran[i]] =
            calculate_difference(source_arg, source_config, targets[ran[i]])

(***************************************************************************)
(* lifecycle/model_diff.py: ModelDifferenceConfig.from_dict, followed by   *)
(* ModelDifference.calculate with the config it returned (as the callers   *)
(* of the tests do).  pc is "parse" before from_dict, "ready" once it has  *)
(* returned, "raised" once it has raised, "done" after calculate.          *)
(***************************************************************************)
\* the longest list of a config dict
MaxListed == 2

\* the elements of a list
Range(seq) == {seq[i] : i \in 1..Len(seq)}

\* the index of the first element of a list that is not in a set
first_not_in(seq, S) ==
    CHOOSE i \in 1..Len(seq) :
        seq[i] \notin S /\ \A j \in 1..(i - 1) : seq[j] \in S

\* re.compile accepts the text: a "*" repeats the single item before it
compiles(text) ==
    \A i \in 1..Len(text) : text[i] = "*" => (i > 1 /\ text[i - 1] # "*")

\* re.compile(text) for a text of the form  <lit>  or  <lit>.*
compile(text) ==
    IF Len(text) >= 2 /\ SubSeq(text, Len(text) - 1, Len(text)) = <<".", "*">>
    THEN Pattern(SubSeq(text, 1, Len(text) - 2), TRUE)
    ELSE Pattern(text, FALSE)

Raise(type, value) == [type |-> type, value |-> value]

\* the config before from_dict has returned one
NoConfig == ModelDifferenceConfig({}, <<>>, GroupFields)

\* mutant: group_fields is taken as it is given
from_dict_unchecked(dict) ==
    LET config_fields == dict.fields
        patterns ==
            IF "groups_patterns" \in DOMAIN dict
            THEN dict.groups_patterns ELSE << <<".", "*">> >>
        group_fields ==
            IF "group_fields" \in DOMAIN dict THEN dict.group_fields ELSE <<>>
    IN  IF \E i \in 1..Len(config_fields) : config_fields[i] \notin UserFields
        THEN [ raised |-> Raise("InvalidUserField",
                     config_fields[first_not_in(config_fields, UserFields)]),
               config |-> NoConfig ]
        ELSE IF /\ "groups" \in Range(config_fields)
                /\ \E i \in 1..Len(patterns) : ~compiles(patterns[i])
        THEN [ raised |-> Raise("InvalidRegex",
                     patterns[first_not_in(patterns,
                                  {t \in Range(patterns) : compiles(t)})]),
               config |-> NoConfig ]
        ELSE [ raised |-> NoException,
               config |->
                   ModelDifferenceConfig(
                       Range(config_fields),
                       IF "groups" \in Range(config_fields)
                       THEN [i \in 1..Len(patterns) |-> compile(patterns[i])]
                       ELSE <<>>,
                       IF group_fields # <<>>
                       THEN Range(group_fields) ELSE GroupFields) ]

\* ModelDifferenceConfig.from_dict: the exception it raises, or the config
\* it returns (a list of fields is kept as the set of its entries, which is
\* all that _users_differ, _groups_differ and _merge_users read of it)
from_dict(dict) ==
    LET config_fields == dict.fields
        patterns ==
            IF "groups_patterns" \in DOMAIN dict
            THEN dict.groups_patterns ELSE << <<".", "*">> >>
        group_fields ==
            IF "group_fields" \in DOMAIN dict THEN dict.group_fields ELSE <<>>
    IN  IF \E i \in 1..Len(config_fields) : config_fields[i] \notin UserFields
        THEN [ raised |-> Raise("InvalidUserField",
                     config_fields[first_not_in(config_fields, UserFields)]),
               config |-> NoConfig ]
        ELSE IF \E i \in 1..Len(group_fields) : group_fields[i] \notin GroupFields
        THEN [ raised |-> Raise("InvalidGroupField",
                     group_fields[first_not_in(group_fields, GroupFields)]),
               config |-> NoConfig ]
        ELSE IF /\ "groups" \in Range(config_fields)
                /\ \E i \in 1..Len(patterns) : ~compiles(patterns[i])
        THEN [ raised |-> Raise("InvalidRegex",
                     patterns[first_not_in(patterns,
                                  {t \in Range(patterns) : compiles(t)})]),
               config |-> NoConfig ]
        ELSE [ raised |-> NoException,
               config |->
                   ModelDifferenceConfig(
                       Range(config_fields),
                       IF "groups" \in Range(config_fields)
                       THEN [i \in 1..Len(patterns) |-> compile(patterns[i])]
                       ELSE <<>>,
                       IF group_fields # <<>>
                       THEN Range(group_fields) ELSE GroupFields) ]

\* the names a config dict lists as fields: two supported ones and one that
\* no model has
ListedFields == SeqsUpTo({"username", "groups", "foobarbaz"}, MaxListed)

ListedGroupFields == SeqsUpTo({"name", "foobarbaz"}, MaxListed)

\* the texts  .*  ,  p.*  and the malformed  **
PatternTexts == { <<".", "*">>, <<"p", ".", "*">>, <<"*", "*">> }

ListedPatterns == SeqsUpTo(PatternTexts, MaxListed)

\* the dicts handed to from_dict: "fields" always, the other keys optional
ConfigDicts ==
    [fields : ListedFields]
    \cup [fields : ListedFields, group_fields : ListedGroupFields]
    \cup [fields : ListedFields, groups_patterns : ListedPatterns]
    \cup [ fields : ListedFields, group_fields : ListedGroupFields,
           groups_patterns : ListedPatterns ]

\* the collections handed to calculate: u1 holds p1 and d1 in the source
\* and p1 in the target
ConfigInputs ==
    { << [u \in {<<"u", "1">>} |->
             User(u, NoStr, NoStr, NoStr, <<>>,
                  << Group(<<"p", "1">>, NoStr, <<>>),
                     Group(<<"d", "1">>, NoStr, <<>>) >>, FALSE)],
         [u \in {<<"u", "1">>} |->
             User(u, NoStr, NoStr, NoStr, <<>>,
                  << Group(<<"p", "1">>, NoStr, <<>>) >>, FALSE)] >>,
      <<EmptyUsers, EmptyUsers>> }

ConfigInit ==
    \E dict \in ConfigDicts, input \in ConfigInputs :
        /\ config_dict = dict
        /\ raised = NoException
        /\ source_users = input[1]
        /\ target_users = input[2]
        /\ source_arg = input[1]
        /\ config = NoConfig
        /\ difference = NoDifference
        /\ pc = "parse"
        /\ NoUserRun /\ NoStageRun /\ NoSharedRun /\ NoOtherRun

\* from_dict returns a config
FromDictReturns ==
    /\ pc = "parse"
    /\ from_dict(config_dict).raised.type = "None"
    /\ config' = from_dict(config_dict).config
    /\ pc' = "ready"
    /\ UNCHANGED <<source_users, target_users, source_arg, difference>>
    /\ UNCHANGED <<user_vars, config_dict, raised, stage_vars, shared_vars>>
    /\ UNCHANGED other_vars

\* from_dict raises, and calculate is never called
FromDictRaises ==
    /\ pc = "parse"
    /\ from_dict(config_dict).raised.type # "None"
    /\ raised' = from_dict(config_dict).raised
    /\ pc' = "raised"
    /\ UNCHANGED <<source_users, target_users, source_arg, difference, config>>
    /\ UNCHANGED <<user_vars, config_dict, stage_vars, shared_vars>>
    /\ UNCHANGED other_vars

ConfigNext ==
    \/ FromDictReturns
    \/ FromDictRaises
    \/ Calculate

SpecConfig == ConfigInit /\ [][ConfigNext]_vars

(***************************************************************************)
(* C18.  from_dict returns a configuration only if every entry of fields   *)
(* is a supported User field, every entry of a supplied group_fields is a  *)
(* supported Group field and (when "groups" is in fields) every            *)
(* groups_patterns string compiles; otherwise it raises InvalidUserField,  *)
(* InvalidGroupField or InvalidRegex respectively, carrying the offending  *)
(* field or pattern, and no diff is computed.  Without group_fields the    *)
(* configuration's group_fields is the full set of Group fields, and       *)
(* without groups_patterns, "groups" being compared, its patterns are the  *)
(* single catch-all pattern.                                               *)
(***************************************************************************)
Supplied(key) == IF key \in DOMAIN config_dict THEN config_dict[key] ELSE <<>>

FieldsSupported == Range(config_dict.fields) \subseteq UserFields

GroupFieldsSupported == Range(Supplied("group_fields")) \subseteq GroupFields

PatternsCompile ==
    "groups" \in Range(config_dict.fields) =>
        \A i \in 1..Len(Supplied("groups_patterns")) :
            Len(Supplied("groups_patterns")[i]) > 0
                => Supplied("groups_patterns")[i][1] # "*"

\* C18: from_dict returns exactly for the valid dicts, raises the matching
\* exception otherwise, and fills in the defaults
C18_FromDict ==
    pc # "parse" =>
        /\ (pc \in {"ready", "done"})
               = (FieldsSupported /\ GroupFieldsSupported /\ PatternsCompile)
        /\ pc = "raised" =>
               /\ difference = NoDifference
               /\ raised.type
                      \in {"InvalidUserField", "InvalidGroupField", "InvalidRegex"}
               /\ raised.type = "InvalidUserField" =>
                      raised.value \in Range(config_dict.fields) \ UserFields
               /\ raised.type = "InvalidGroupField" =>
                      raised.value
                          \in Range(Supplied("group_fields")) \ GroupFields
               /\ raised.type = "InvalidRegex" =>
                      /\ raised.value \in Range(Supplied("groups_patterns"))
                      /\ raised.value[1] = "*"
        /\ pc \in {"ready", "done"} =>
               /\ raised.type = "None"
               /\ "group_fields" \notin DOMAIN config_dict =>
                      config.group_fields = GroupFields
               /\ ( /\ "groups_patterns" \notin DOMAIN config_dict
                    /\ "groups" \in Range(config_dict.fields) ) =>
                      config.groups_patterns = <<Pattern(NoStr, TRUE)>>

C18_Witness ==
    /\ pc = "raised"
    /\ raised.type = "InvalidRegex"
    /\ "group_fields" \in DOMAIN config_dict
    /\ Len(config_dict.fields) = 2
    /\ source_arg # EmptyUsers

(***************************************************************************)
(* lifecycle/models.py: the construction of a User.  pc is "new" before    *)
(* the constructor runs and "constructed" after it.                        *)
(***************************************************************************)
\* the longest fullname handed to the constructor
MaxName == 4

\* the fullnames: words of "a" separated by any number of spaces
Fullnames == SeqsUpTo({"a", " "}, MaxName)

\* the forenames and surnames handed to the constructor
NameParts == { NoStr, <<"x">>, <<"y">>, <<"x", " ", "y">> }

UserInit ==
    \E forename \in NameParts, surname \in NameParts, fullname \in Fullnames :
        /\ user_args = [ forename |-> forename, surname |-> surname,
                         fullname |-> fullname ]
        /\ new_user = User(NoStr, NoStr, NoStr, NoStr, <<>>, <<>>, FALSE)
        /\ pc = "new"
        /\ source_users = EmptyUsers
        /\ target_users = EmptyUsers
        /\ source_arg = EmptyUsers
        /\ config = NoConfig
        /\ difference = NoDifference
        /\ NoParseRun /\ NoStageRun /\ NoSharedRun /\ NoOtherRun

\* User("u1", forename=..., surname=..., fullname=...)
Construct ==
    /\ pc = "new"
    /\ new_user' = User(<<"u", "1">>, user_args.forename, user_args.surname,
                        user_args.fullname, <<>>, <<>>, FALSE)
    /\ pc' = "constructed"
    /\ UNCHANGED <<source_users, target_users, config, source_arg, difference>>
    /\ UNCHANGED <<user_args, config_dict, raised, stage_vars, shared_vars>>
    /\ UNCHANGED other_vars

UserNext == Construct

SpecUser == UserInit /\ [][UserNext]_vars

(***************************************************************************)
(* C19.  When a User is constructed with a fullname, an absent forename is *)
(* set to the first whitespace-delimited token of fullname and an absent   *)
(* surname to the remainder of fullname after removing that first token    *)
(* and any whitespace following it (a one-token fullname gives an empty    *)
(* remainder, runs of whitespace do not leak into the surname); a forename *)
(* or surname that was supplied is left untouched.                         *)
(***************************************************************************)
\* a string without its leading spaces
RECURSIVE LeftStripped(_)
LeftStripped(s) ==
    IF s # <<>> /\ s[1] = " " THEN LeftStripped(Tail(s)) ELSE s

\* the longest prefix of a string that holds no space
RECURSIVE Word(_)
Word(s) ==
    IF s = <<>> \/ s[1] = " " THEN <<>> ELSE <<s[1]>> \o Word(Tail(s))

\* the first whitespace-delimited token of a string
FirstToken(s) == Word(LeftStripped(s))

\* the string after its first token and the whitespace that follows it
Remainder(s) ==
    LeftStripped(SubSeq(LeftStripped(s), Len(FirstToken(s)) + 1,
                        Len(LeftStripped(s))))

\* C19 as stated: the absent parts are the first token and the remainder
C19_AsStated ==
    (pc = "constructed" /\ user_args.fullname # <<>>) =>
        /\ new_user.forename =
               IF user_args.forename = <<>>
               THEN FirstToken(user_args.fullname) ELSE user_args.forename
        /\ new_user.surname =
               IF user_args.surname = <<>>
               THEN Remainder(user_args.fullname) ELSE user_args.surname

(***************************************************************************)
(* C20.  When a User is constructed without a fullname, fullname becomes   *)
(* the non-empty values among forename and surname joined by exactly one   *)
(* space (forename alone, surname alone, or the empty string when both are *)
(* empty), and forename and surname are left unchanged.                    *)
(***************************************************************************)
\* C20: the fullname is assembled, forename and surname are kept
C20_Assembled ==
    (pc = "constructed" /\ user_args.fullname = <<>>) =>
        /\ new_user.forename = user_args.forename
        /\ new_user.surname = user_args.surname
        /\ new_user.fullname =
               IF user_args.forename = <<>> THEN user_args.surname
               ELSE IF user_args.surname = <<>> THEN user_args.forename
               ELSE user_args.forename \o <<" ">> \o user_args.surname

C20_Witness ==
    /\ pc = "constructed"
    /\ user_args.fullname = <<>>
    /\ user_args.forename = <<"x">>
    /\ user_args.surname = <<"x", " ", "y">>
    /\ new_user.fullname = <<"x", " ", "x", " ", "y">>


(***************************************************************************)
(* C26.  Group pattern matching is a no-op unless "groups" participates in *)
(* comparison or merge: when "groups" is not in config.fields, calculate   *)
(* leaves every source user's groups unfiltered whatever groups_patterns   *)
(* the config holds.                                                       *)
(***************************************************************************)
\* C26 as stated: without "groups" among the fields no source user loses a
\* group
C26_AsStated ==
    (pc = "done" /\ ~GroupsCompared) =>
        \A k \in SourceKeys : source_users[k].groups = source_arg[k].groups


(***************************************************************************)
(* lifecycle/models.py: the comparison of two Groups or of two Users.      *)
(* @dataclass(unsafe_hash=True, order=True) generates __eq__ and __hash__  *)
(* from the tuple of the fields, in the order of their declaration.        *)
(***************************************************************************)
\* the tuple of fields a Group is compared and hashed by
Group_astuple(group) == <<group.name, group.description, group.email>>

\* the tuple of fields a User is compared and hashed by; Python compares the
\* groups tuple element by element with Group.__eq__
User_astuple(user) ==
    << user.username, user.forename, user.surname, user.fullname,
       user.email,
       [i \in 1..Len(user.groups) |-> Group_astuple(user.groups[i])],
       user.locked >>

\* the generated __eq__ of both classes: same class and equal field tuples
__eq__(a, b) ==
    /\ a.class = b.class
    /\ IF a.class = "Group"
       THEN Group_astuple(a.record) = Group_astuple(b.record)
       ELSE User_astuple(a.record) = User_astuple(b.record)

\* the generated __hash__: hash() of the field tuple, here the tuple itself
__hash__(a) ==
    IF a.class = "Group" THEN Group_astuple(a.record)
    ELSE User_astuple(a.record)

\* an object with its class
Object(class, record) == [class |-> class, record |-> record]

\* Groups of two names, two descriptions and every e-mail tuple
EqGroups ==
    { Group(n, d, e) : n \in {<<"p", "1">>, <<"d", "1">>},
                       d \in {NoStr, <<"a">>}, e \in EmailTuples }

\* the objects handed to ==
EqObjects ==
    { Object("Group", g) : g \in EqGroups }
    \cup { Object("User", u) : u \in UserDomain(Focus) }

EqInit ==
    /\ \E a, b \in EqObjects : operands = <<a, b>>
    /\ verdict = [eq |-> FALSE, hash_eq |-> FALSE]
    /\ pc = "compare"
    /\ source_users = EmptyUsers
    /\ target_users = EmptyUsers
    /\ source_arg = EmptyUsers
    /\ config = ModelDifferenceConfig({}, <<>>, {})
    /\ difference = NoDifference
    /\ NoUserRun /\ NoParseRun /\ NoStageRun /\ NoSharedRun
    /\ NoFetchRun /\ NoPageRun /\ NoTokenRun /\ NoCrmRun

\* a == b and hash(a) == hash(b)
Compare ==
    /\ pc = "compare"
    /\ verdict' =
           [ eq |-> __eq__(operands[1], operands[2]),
             hash_eq |-> __hash__(operands[1]) = __hash__(operands[2]) ]
    /\ pc' = "compared"
    /\ UNCHANGED <<source_users, target_users, config, source_arg, difference>>
    /\ UNCHANGED <<user_vars, config_dict, raised, stage_vars, shared_vars>>
    /\ UNCHANGED <<operands, fetch_vars, page_vars, token_vars, crm_vars>>

EqNext == Compare

SpecEq == EqInit /\ [][EqNext]_vars

\* the sequences hold the same elements, each as often
Permutation(s, t) ==
    /\ Len(s) = Len(t)
    /\ \A x \in Range(s) \cup Range(t) :
           Cardinality({i \in 1..Len(s) : s[i] = x})
               = Cardinality({i \in 1..Len(t) : t[i] = x})

\* two Groups that differ at most in the order of email
GroupsSameButOrder(g, h) ==
    /\ g.name = h.name
    /\ g.description = h.description
    /\ Permutation(g.email, h.email)

\* two Users that differ at most in the order of email or of groups
UsersSameButOrder(u, v) ==
    /\ \A f \in {"username", "forename", "surname", "fullname", "locked"} :
           u[f] = v[f]
    /\ Permutation(u.email, v.email)
    /\ Permutation(u.groups, v.groups)

SameButOrder(a, b) ==
    /\ a.class = b.class
    /\ IF a.class = "Group" THEN GroupsSameButOrder(a.record, b.record)
       ELSE UsersSameButOrder(a.record, b.record)

(***************************************************************************)
(* C21.  Group and User equality and hashing treat email (and a User's     *)
(* groups) as a set: two Groups with the same name and description whose   *)
(* email sequences are permutations of each other are equal and have equal *)
(* hashes, and likewise two Users that differ only in the order of email   *)
(* or groups.                                                              *)
(***************************************************************************)
\* C21 as stated: records that differ in order only are equal, so are
\* their hashes
C21_AsStated ==
    (pc = "compared" /\ SameButOrder(operands[1], operands[2])) =>
        verdict.eq /\ verdict.hash_eq


(***************************************************************************)
(* fetch_users of the three implementations and SourceStaticConfig.fetch.  *)
(* backing is the set of accounts the LDAP or SuiteCRM server lists; the   *)
(* static source reads its config (source_config).  A fetch_users result   *)
(* is the self.users it leaves, the dict it returns and whether the        *)
(* backing system was asked.                                               *)
(***************************************************************************)
\* the longest run of calls on one object
MaxCalls == 3

Implementations == {"SourceStaticConfig", "SourceLDAP3", "TargetSuiteCRM"}

\* the Users built from the listed accounts
built_users(accounts) ==
    [u \in accounts |-> User(u, NoStr, NoStr, NoStr, <<>>, <<>>, FALSE)]

FetchResult(users, returned, queried) ==
    [users |-> users, returned |-> returned, queried |-> queried]

\* SourceStaticConfig.fetch_users as a call on the object
staticconfig_fetch_users(users, cfg, refresh) ==
    FetchResult(fetch_users(users, cfg, refresh),
                fetch_users(users, cfg, refresh),
                refresh \/ users = EmptyUsers)

\* SourceLDAP3.fetch_users: self.users is assigned only when the search
\* found entries
ldap3_fetch_users(users, entries, refresh) ==
    IF ~refresh /\ users # EmptyUsers
    THEN FetchResult(users, users, FALSE)
    ELSE IF entries # {}
         THEN FetchResult(built_users(entries), built_users(entries), TRUE)
         ELSE FetchResult(users, EmptyUsers, TRUE)

\* TargetSuiteCRM.fetch_users
suitecrm_fetch_users(users, entries, refresh) ==
    IF ~refresh /\ users # EmptyUsers
    THEN FetchResult(users, users, FALSE)
    ELSE FetchResult(built_users(entries), built_users(entries), TRUE)

\* fetch_users(refresh) of the object at hand
object_fetch_users(refresh) ==
    CASE impl = "SourceStaticConfig" ->
             staticconfig_fetch_users(cache, source_config, refresh)
      [] impl = "SourceLDAP3" -> ldap3_fetch_users(cache, backing, refresh)
      [] OTHER -> suitecrm_fetch_users(cache, backing, refresh)

\* the account sets a server may list
AccountSets == { {}, {<<"u", "1">>}, {<<"u", "1">>, <<"u", "2">>} }

Call(op, refresh, returned, queried) ==
    [op |-> op, refresh |-> refresh, returned |-> returned,
     queried |-> queried]

FetchInit ==
    /\ \E i \in Implementations : impl = i
    /\ IF impl = "SourceStaticConfig"
       THEN /\ backing = {}
            /\ \E users \in ConfigUsers, groups \in ConfigGroups :
                   source_config = [users |-> users, groups |-> groups]
       ELSE /\ backing \in AccountSets
            /\ source_config = [users |-> <<>>, groups |-> <<>>]
    /\ cache = EmptyUsers
    /\ calls = <<>>
    /\ pc = "fetch"
    /\ targets = <<>>
    /\ results = <<>>
    /\ ran = <<>>
    /\ NoDiffRun /\ NoUserRun /\ NoParseRun /\ NoStageRun /\ NoEqRun
    /\ NoPageRun /\ NoTokenRun /\ NoCrmRun

\* obj.fetch_users(refresh)
FetchUsers(refresh) ==
    /\ Len(calls) < MaxCalls
    /\ cache' = object_fetch_users(refresh).users
    /\ calls' = Append(calls,
                       Call("fetch_users", refresh,
                            object_fetch_users(refresh).returned,
                            object_fetch_users(refresh).queried))
    /\ UNCHANGED <<impl, backing, pc>>
    /\ UNCHANGED <<source_users, target_users, config, source_arg, difference>>
    /\ UNCHANGED <<user_vars, config_dict, raised, stage_vars, shared_vars>>
    /\ UNCHANGED <<eq_vars, page_vars, token_vars, crm_vars>>

\* source.fetch() of the static source; it returns None, logged as no users
Fetch ==
    /\ impl = "SourceStaticConfig"
    /\ Len(calls) < MaxCalls
    /\ cache' = fetch(cache, source_config)
    /\ calls' = Append(calls,
                       Call("fetch", FALSE, EmptyUsers, cache = EmptyUsers))
    /\ UNCHANGED <<impl, backing, pc>>
    /\ UNCHANGED <<source_users, target_users, config, source_arg, difference>>
    /\ UNCHANGED <<user_vars, config_dict, raised, stage_vars, shared_vars>>
    /\ UNCHANGED <<eq_vars, page_vars, token_vars, crm_vars>>

\* accounts are created or deleted on the server
BackingChanges ==
    /\ impl # "SourceStaticConfig"
    /\ \E accounts \in AccountSets \ {backing} : backing' = accounts
    /\ UNCHANGED <<impl, cache, calls, pc>>
    /\ UNCHANGED <<source_users, target_users, config, source_arg, difference>>
    /\ UNCHANGED <<user_vars, config_dict, raised, stage_vars, shared_vars>>
    /\ UNCHANGED <<eq_vars, page_vars, token_vars, crm_vars>>

FetchNext ==
    \/ \E refresh \in BOOLEAN : FetchUsers(refresh)
    \/ Fetch
    \/ BackingChanges

SpecFetch == FetchInit /\ [][FetchNext]_vars

(***************************************************************************)
(* C22.  For every source and target implementation, fetch_users(          *)
(* refresh=True) always re-fetches from the backing system, and after it   *)
(* returns the cached snapshot that later fetch_users(refresh=False) calls *)
(* return equals the map just returned (also when the re-fetch finds no    *)
(* users); fetch_users(refresh=False) after a non-empty fetch returns the  *)
(* cached snapshot without querying the backing system.                    *)
(***************************************************************************)
\* a fetch_users(refresh=True) directly followed by a
\* fetch_users(refresh=False) on the same object
RefreshThenCached(i) ==
    /\ i + 1 <= Len(calls)
    /\ calls[i].op = "fetch_users" /\ calls[i].refresh
    /\ calls[i+1].op = "fetch_users" /\ ~calls[i+1].refresh

\* C22 as stated: a refresh asks the backing system, and the call after it
\* returns what the refresh returned
C22_AsStated ==
    /\ \A i \in 1..Len(calls) :
           (calls[i].op = "fetch_users" /\ calls[i].refresh)
               => calls[i].queried
    /\ \A i \in 1..Len(calls) :
           RefreshThenCached(i) => calls[i+1].returned = calls[i].returned

(***************************************************************************)
(* C30.  SourceStaticConfig.fetch is idempotent: calling fetch() any       *)
(* number of times leaves source.users equal to the model produced by a    *)
(* single fetch(), with each configured group appearing at most once in    *)
(* each member's groups.                                                   *)
(***************************************************************************)
\* fetch() was called, and nothing else
OnlyFetched ==
    /\ impl = "SourceStaticConfig"
    /\ calls # <<>>
    /\ \A i \in 1..Len(calls) : calls[i].op = "fetch"

\* C30 as stated: self.users is what the first fetch() made it
C30_AsStated ==
    OnlyFetched =>
        /\ cache = fetch(EmptyUsers, source_config)
        /\ \A u \in DOMAIN cache :
               \A i, j \in 1..Len(cache[u].groups) :
                   cache[u].groups[i] = cache[u].groups[j] => i = j


(***************************************************************************)
(* TargetSuiteCRM._iter_pages, one step per request, loop test and return. *)
(* The server holds `records` entries for the endpoint, numbered from 1,   *)
(* and serves them in pages of api_page_size entries; every response       *)
(* reports total-pages.  Each active call of the generator is a frame with *)
(* its local `page` and the point it has reached.                          *)
(***************************************************************************)
\* the most entries the server holds
MaxRecords == 6
\* the largest api_page_size
MaxPageSize == 2

\* math.ceil(records / api_page_size): meta["total-pages"] of a response
total_pages == (records + api_page_size - 1) \div api_page_size

\* the "data" of the response for a page
page_data(page) ==
    [k \in 1..(IF page * api_page_size <= records THEN api_page_size
               ELSE IF (page - 1) * api_page_size < records
                    THEN records - (page - 1) * api_page_size
                    ELSE 0)
        |-> (page - 1) * api_page_size + k]

Frame(page, at) == [page |-> page, at |-> at]

PagesInit ==
    /\ records \in 0..MaxRecords
    /\ api_page_size \in 1..MaxPageSize
    /\ frames = <<Frame(1, "request")>>
    /\ requested = <<>>
    /\ yielded = <<>>
    /\ pc = "iterating"
    /\ NoDiffRun /\ NoUserRun /\ NoParseRun /\ NoStageRun /\ NoSharedRun
    /\ NoEqRun /\ NoFetchRun /\ NoTokenRun /\ NoCrmRun

\* the innermost active call
top == frames[Len(frames)]

\* _json = self._request(endpoint, params=params).json()
\* yield from _json["data"]
RequestPage ==
    /\ frames # <<>>
    /\ top.at = "request"
    /\ requested' = Append(requested, top.page)
    /\ yielded' = yielded \o page_data(top.page)
    /\ frames' = [frames EXCEPT ![Len(frames)].at = "while"]
    /\ UNCHANGED <<records, api_page_size, pc>>
    /\ UNCHANGED <<source_users, target_users, config, source_arg, difference>>
    /\ UNCHANGED <<user_vars, config_dict, raised, stage_vars, shared_vars>>
    /\ UNCHANGED <<eq_vars, fetch_vars, token_vars, crm_vars>>

\* while page < total_pages: page += 1; yield from self._iter_pages(...)
NextPage ==
    /\ frames # <<>>
    /\ top.at = "while"
    /\ top.page < total_pages
    /\ frames' = Append([frames EXCEPT ![Len(frames)].page = top.page + 1],
                        Frame(top.page + 1, "request"))
    /\ UNCHANGED <<records, api_page_size, requested, yielded, pc>>
    /\ UNCHANGED <<source_users, target_users, config, source_arg, difference>>
    /\ UNCHANGED <<user_vars, config_dict, raised, stage_vars, shared_vars>>
    /\ UNCHANGED <<eq_vars, fetch_vars, token_vars, crm_vars>>

\* the loop test fails: the call is exhausted and its caller resumes
ReturnPage ==
    /\ frames # <<>>
    /\ top.at = "while"
    /\ ~(top.page < total_pages)
    /\ frames' = SubSeq(frames, 1, Len(frames) - 1)
    /\ pc' = IF Len(frames) = 1 THEN "exhausted" ELSE pc
    /\ UNCHANGED <<records, api_page_size, requested, yielded>>
    /\ UNCHANGED <<source_users, target_users, config, source_arg, difference>>
    /\ UNCHANGED <<user_vars, config_dict, raised, stage_vars, shared_vars>>
    /\ UNCHANGED <<eq_vars, fetch_vars, token_vars, crm_vars>>

PagesNext == RequestPage \/ NextPage \/ ReturnPage

SpecPages == PagesInit /\ [][PagesNext]_vars

(***************************************************************************)
(* C28.  For a paginated endpoint reporting total-pages = N (any N >= 0),  *)
(* _iter_pages terminates, requests each page 1..N exactly once, and       *)
(* yields every entry of every page exactly once, in page order.           *)
(***************************************************************************)
\* C28 as stated: once the generator is exhausted every page was requested
\* once and the entries were yielded once each, in order
C28_AsStated ==
    pc = "exhausted" =>
        /\ \A p \in 1..total_pages : Count(requested, p) = 1
        /\ yielded = [i \in 1..records |-> i]


(***************************************************************************)
(* The access token of TargetSuiteCRM: _token_invalid, _get_token and the  *)
(* authenticated _request.  Times are in seconds; token_expiry is the      *)
(* "exp" of the token the server issued.                                   *)
(***************************************************************************)
\* the seconds _token_invalid adds to the expiry
ExpiryMargin == 60

\* the clock stops here
MaxClock == 300

\* the seconds that pass between two requests
Delays == {30, 60}

\* the lifetimes of the tokens the server issues
TokenLifetimes == {90, 150}

\* TargetSuiteCRM._token_invalid
_token_invalid == ~token_held \/ token_expiry + ExpiryMargin < now

Request(at, exp, reauth, held, held_exp) ==
    [auth |-> TRUE, at |-> at, exp |-> exp, reauth |-> reauth,
     held |-> held, held_exp |-> held_exp]

TokenInit ==
    /\ now = 0
    /\ token_held = FALSE
    /\ token_expiry = 0
    /\ sent = NoRequest
    /\ pc = "serving"
    /\ NoDiffRun /\ NoUserRun /\ NoParseRun /\ NoStageRun /\ NoSharedRun
    /\ NoEqRun /\ NoFetchRun /\ NoPageRun /\ NoCrmRun

\* time passes
Tick ==
    /\ \E d \in Delays : now + d <= MaxClock /\ now' = now + d
    /\ UNCHANGED <<token_held, token_expiry, sent, pc>>
    /\ UNCHANGED <<source_users, target_users, config, source_arg, difference>>
    /\ UNCHANGED <<user_vars, config_dict, raised, stage_vars, shared_vars>>
    /\ UNCHANGED <<eq_vars, fetch_vars, page_vars, crm_vars>>

\* self._request(endpoint) with auth=True: the header carries _get_token(),
\* which authenticates first when _token_invalid()
AuthenticatedRequest ==
    /\ IF _token_invalid
       THEN \E lifetime \in TokenLifetimes :
                /\ token_held' = TRUE
                /\ token_expiry' = now + lifetime
                /\ sent' = Request(now, now + lifetime, TRUE,
                                   token_held, token_expiry)
       ELSE /\ sent' = Request(now, token_expiry, FALSE,
                               token_held, token_expiry)
            /\ UNCHANGED <<token_held, token_expiry>>
    /\ UNCHANGED <<now, pc>>
    /\ UNCHANGED <<source_users, target_users, config, source_arg, difference>>
    /\ UNCHANGED <<user_vars, config_dict, raised, stage_vars, shared_vars>>
    /\ UNCHANGED <<eq_vars, fetch_vars, page_vars, crm_vars>>

TokenNext == Tick \/ AuthenticatedRequest

SpecToken == TokenInit /\ [][TokenNext]_vars

(***************************************************************************)
(* C27.  TargetSuiteCRM never sends an authenticated request with an       *)
(* access token whose expiry is less than 60 seconds away or already past: *)
(* _get_token re-authenticates whenever the current time is later than     *)
(* (token expiry minus 60 seconds) or no token is held, and otherwise      *)
(* reuses the held token.                                                  *)
(***************************************************************************)
\* C27 as stated: the token of a request has at least 60 seconds left, and
\* a new one was fetched exactly when none was held or the held one had
\* less than that left
C27_AsStated ==
    sent.auth =>
        /\ sent.exp - sent.at >= 60
        /\ sent.reauth <=> (~sent.held \/ sent.at > sent.held_exp - 60)


(***************************************************************************)
(* lifecycle/target_suitecrm.py against a SuiteCRM server.  The server     *)
(* holds User entries (with the e-mail addresses and the ids of the        *)
(* SecurityGroups related to each), SecurityGroup entries and EmailAddress *)
(* entries; every entry has an id of its own and a listing returns the     *)
(* entries in the order of their ids.  No one else writes to the server    *)
(* while the stages run.                                                   *)
(***************************************************************************)
\* the users beside the focus user
MaxOthers == 1

\* TargetSuiteCRM.supported_user_fields
supported_user_fields ==
    {"username", "forename", "surname", "email", "locked", "groups"}

CrmUser(id, user_name, status, emails, groups) ==
    [id |-> id, user_name |-> user_name, status |-> status,
     emails |-> emails, groups |-> groups]

CrmGroup(id, name, description) ==
    [id |-> id, name |-> name, description |-> description]

Entries(users, groups, emails) ==
    [users |-> users, groups |-> groups, emails |-> emails]

\* the id the server gives the next entry it creates
new_id(server) ==
    LET ids == {e.id : e \in server.users} \cup {e.id : e \in server.groups}
    IN  IF ids = {} THEN 1
        ELSE 1 + CHOOSE i \in ids : \A j \in ids : j <= i

\* the entries of a listing, in the order of their ids
RECURSIVE listing(_)
listing(entries) ==
    IF entries = {} THEN <<>>
    ELSE LET first == CHOOSE e \in entries : \A o \in entries : e.id <= o.id
         IN  <<first>> \o listing(entries \ {first})

\* the addresses related to a user, as the tuple the listing gives
RECURSIVE addresses(_)
addresses(emails) ==
    IF emails = {} THEN <<>>
    ELSE LET first == CHOOSE e \in emails :
                          \A o \in emails : e = o \/ StrLess(e, o)
         IN  <<first>> \o addresses(emails \ {first})

\* fetch_users: self._users_data[username] = obj, the last listed entry of
\* a username stays
fetched_users_data(server) ==
    [u \in {e.user_name : e \in server.users} |->
        CHOOSE e \in server.users :
            /\ e.user_name = u
            /\ \A o \in server.users : o.user_name = u => o.id <= e.id]

\* _fetch_groups_for_user: the Groups of the SecurityGroups related to an
\* entry; a SecurityGroup has no e-mail
_fetch_groups_for_user(server, entry) ==
    LET related == listing({g \in server.groups : g.id \in entry.groups})
    IN  [i \in 1..Len(related) |->
            Group(related[i].name, related[i].description, <<>>)]

\* TargetSuiteCRM.fetch_users, when it asks the server
crm_fetch_users(server) ==
    [u \in DOMAIN fetched_users_data(server) |->
        LET entry == fetched_users_data(server)[u]
        IN  User(u, NoStr, NoStr, NoStr, addresses(entry.emails),
                 _fetch_groups_for_user(server, entry),
                 entry.status # "Active")]

\* self.fetch_users(): self._users_data after the call
_users_data_after_fetch(data, server, refresh) ==
    IF ~refresh /\ data # EmptyDict THEN data ELSE fetched_users_data(server)

\* _fetch_all_groups: the first listed entry of a name stays
_fetch_all_groups(cached, server, refresh) ==
    IF ~refresh /\ cached # EmptyDict THEN cached
    ELSE [n \in {g.name : g \in server.groups} |->
             CHOOSE g \in server.groups :
                 /\ g.name = n
                 /\ \A o \in server.groups : o.name = n => g.id <= o.id]

\* _group_differs
_group_differs(lifecycle_group, crm_group) ==
    lifecycle_group.description # crm_group.description

\* a modifying request, and whom or what it is about
Modification(op, about) == [op |-> op, about |-> about]

\* the result of a method: the server's entries, the target's caches and
\* the modifying requests made so far
Outcome(server, data, cached, requests) ==
    [server |-> server, data |-> data, cached |-> cached,
     requests |-> requests]

\* _create_group: POST of a SecurityGroup
_create_group(server, group) ==
    [server EXCEPT
        !.groups = @ \cup {CrmGroup(new_id(server), group.name,
                                    group.description)}]

\* _update_group: PATCH of the description of the entry with the cached id
_update_group(server, cached, group) ==
    [server EXCEPT
        !.groups = {IF g.id = cached[group.name].id
                    THEN [g EXCEPT !.description = group.description]
                    ELSE g : g \in server.groups}]

\* mutant: a group is created whether or not the server lists its name
_sync_group_recreate(server, names_to_ids, group) ==
    _create_group(server, group)

\* _sync_groups, the body of its loop for one group
_sync_group(server, names_to_ids, group) ==
    IF group.name \in DOMAIN names_to_ids
    THEN IF _group_differs(group, names_to_ids[group.name])
         THEN _update_group(server, names_to_ids, group)
         ELSE server
    ELSE _create_group(server, group)

\* the loop of _sync_groups over the groups in the order given
RECURSIVE _sync_groups_loop(_, _, _)
_sync_groups_loop(server, names_to_ids, order) ==
    IF order = <<>> THEN server
    ELSE _sync_groups_loop(_sync_group(server, names_to_ids, Head(order)),
                           names_to_ids, Tail(order))

\* the groups of some users: all_groups of _sync_groups
all_groups(users) ==
    UNION {Range(users[u].groups) : u \in DOMAIN users}

\* the orders a set may be iterated in
Orders(S) ==
    {order \in [1..Cardinality(S) -> S] :
        \A i, j \in 1..Cardinality(S) : order[i] = order[j] => i = j}

\* the requests the loop of _sync_groups makes
_sync_groups_requests(names_to_ids, groups) ==
    { Modification("create_group", g.name) :
        g \in {h \in groups : h.name \notin DOMAIN names_to_ids} }
    \cup { Modification("update_group", g.name) :
        g \in {h \in groups :
                  /\ h.name \in DOMAIN names_to_ids
                  /\ _group_differs(h, names_to_ids[h.name])} }

\* _sync_groups(users), iterating all_groups in the order given
_sync_groups(state, users, order) ==
    LET names_to_ids == _fetch_all_groups(state.cached, state.server, FALSE)
        synced == _sync_groups_loop(state.server, names_to_ids, order)
    IN  Outcome(synced, state.data,
                _fetch_all_groups(names_to_ids, synced, TRUE),
                state.requests
                    \cup _sync_groups_requests(names_to_ids, Range(order)))


\* the usernames of a dict in the order of its values()
RECURSIVE keys(_)
keys(names) ==
    IF names = {} THEN <<>>
    ELSE LET first == CHOOSE n \in names :
                          \A o \in names : n = o \/ StrLess(n, o)
         IN  <<first>> \o keys(names \ {first})

\* the users of a dict that are not excluded
not_excluded(users, excluded) == DOMAIN users \ excluded

RECURSIVE create_users(_, _, _)
\* users_create, its first loop: POST of a User for every added user; the
\* server relates the address given as email1 to the new entry
create_users(server, added, order) ==
    IF order = <<>> THEN server
    ELSE LET user == added[Head(order)]
             first_mail == IF user.email = <<>> THEN {} ELSE {user.email[1]}
             entry == CrmUser(new_id(server), user.username,
                              IF user.locked THEN "Inactive" ELSE "Active",
                              first_mail, {})
         IN  create_users([server EXCEPT !.users = @ \cup {entry},
                                         !.emails = @ \cup first_mail],
                          added, Tail(order))

\* _add_missing_emails: an EmailAddress entry for every address of the
\* users that the server does not list
_add_missing_emails(server, users) ==
    [server EXCEPT
        !.emails = @ \cup UNION {Range(users[u].email) : u \in DOMAIN users}]

\* the entry of a username is replaced
with_entry(server, data, u, entry) ==
    [server EXCEPT
        !.users = {IF e.id = data[u].id THEN entry ELSE e : e \in server.users}]

\* the entry the server holds under the id cached for a username
entry_of(server, data, u) ==
    CHOOSE e \in server.users : e.id = data[u].id

\* users_create, its last loop for one user: _assign_email for every
\* address but the first, _assign_group for every group
assign_new_user(server, data, cached, user) ==
    LET entry == entry_of(server, data, user.username)
    IN  with_entry(server, data, user.username,
            [entry EXCEPT
                !.emails = @ \cup (IF user.email = <<>> THEN {}
                                   ELSE Range(Tail(user.email))),
                !.groups = @ \cup {cached[g.name].id :
                                      g \in Range(user.groups)}])

RECURSIVE assign_new_users(_, _, _, _, _)
assign_new_users(server, data, cached, added, order) ==
    IF order = <<>> THEN server
    ELSE assign_new_users(
             assign_new_user(server, data, cached, added[Head(order)]),
             data, cached, added, Tail(order))

\* the modifying requests of users_create beside those of _sync_groups
users_create_requests(added) ==
    { Modification("create_user", u) : u \in DOMAIN added }
    \cup { Modification("assign_email", u) :
             u \in {v \in DOMAIN added : Len(added[v].email) > 1} }
    \cup { Modification("assign_group", u) :
             u \in {v \in DOMAIN added : added[v].groups # <<>>} }

\* TargetSuiteCRM.users_create, _sync_groups iterating in the order given
users_create(state, diff, order) ==
    LET added == diff.added_users
        created == create_users(state.server, added, keys(DOMAIN added))
        data == _users_data_after_fetch(state.data, created, TRUE)
        synced == _sync_groups(Outcome(created, data, state.cached,
                                       state.requests),
                               added, order)
        mailed == _add_missing_emails(synced.server, added)
    IN  Outcome(assign_new_users(mailed, data, synced.cached, added,
                                 keys(DOMAIN added)),
                data, synced.cached,
                synced.requests \cup users_create_requests(added))

\* users_sync, its first loop for one user: PATCH of the User entry
update_user(server, data, user) ==
    LET entry == entry_of(server, data, user.username)
    IN  with_entry(server, data, user.username,
            [entry EXCEPT
                !.status = IF user.locked THEN "Inactive" ELSE "Active"])

\* _sync_emails_for_users for one user
_sync_emails_for_user(server, data, diff, u) ==
    LET source_emails == Range(diff.source_users[u].email)
        target_emails == Range(diff.target_users[u].email)
        entry == entry_of(server, data, u)
    IN  IF source_emails = target_emails THEN server
        ELSE with_entry(server, data, u,
                 [entry EXCEPT
                     !.emails = (@ \cup (source_emails \ target_emails))
                                    \ (target_emails \ source_emails)])

\* mutant: the groups the user had on the target stay assigned
_sync_group_membership_for_user_additive(server, data, cached, diff, u) ==
    LET entry == entry_of(server, data, u)
    IN  with_entry(server, data, u,
            [entry EXCEPT
                !.groups = @ \cup {cached[g.name].id :
                                g \in Range(diff.changed_users[u].groups)}])

\* _sync_group_membership_for_users for one user: every group the target
\* had is unassigned by the id the server relates under its name, then
\* every group of the merged record is assigned
_sync_group_membership_for_user(server, data, cached, diff, u) ==
    LET changed_groups == Range(diff.changed_users[u].groups)
        target_groups == Range(diff.target_users[u].groups)
        entry == entry_of(server, data, u)
        related == {g \in server.groups : g.id \in entry.groups}
        groups_to_ids ==
            [n \in {g.name : g \in related} |->
                (CHOOSE g \in related :
                     /\ g.name = n
                     /\ \A o \in related : o.name = n => o.id <= g.id).id]
    IN  IF changed_groups = target_groups THEN server
        ELSE with_entry(server, data, u,
                 [entry EXCEPT
                     !.groups =
                         (@ \ {groups_to_ids[g.name] : g \in target_groups})
                             \cup {cached[g.name].id : g \in changed_groups}])

\* users_sync, its first loop
RECURSIVE update_users(_, _, _, _)
update_users(server, data, changed, order) ==
    IF order = <<>> THEN server
    ELSE update_users(update_user(server, data, changed[Head(order)]),
                      data, changed, Tail(order))

\* _sync_emails_for_users
RECURSIVE _sync_emails_for_users(_, _, _, _)
_sync_emails_for_users(server, data, diff, order) ==
    IF order = <<>> THEN server
    ELSE _sync_emails_for_users(
             _sync_emails_for_user(server, data, diff, Head(order)),
             data, diff, Tail(order))

\* _sync_group_membership_for_users
RECURSIVE _sync_group_membership_for_users(_, _, _, _, _)
_sync_group_membership_for_users(server, data, cached, diff, order) ==
    IF order = <<>> THEN server
    ELSE _sync_group_membership_for_users(
             _sync_group_membership_for_user(server, data, cached, diff,
                                             Head(order)),
             data, cached, diff, Tail(order))

\* the modifying requests of users_sync beside those of _sync_groups
users_sync_requests(diff, excluded) ==
    LET synced == not_excluded(diff.changed_users, excluded)
        source_emails(u) == Range(diff.source_users[u].email)
        target_emails(u) == Range(diff.target_users[u].email)
        regrouped ==
            {u \in synced : Range(diff.changed_users[u].groups)
                                # Range(diff.target_users[u].groups)}
    IN  { Modification("update_user", u) : u \in synced }
        \cup { Modification("assign_email", u) :
                 u \in {v \in synced :
                           source_emails(v) \ target_emails(v) # {}} }
        \cup { Modification("unassign_email", u) :
                 u \in {v \in synced :
                           target_emails(v) \ source_emails(v) # {}} }
        \cup { Modification("unassign_group", u) :
                 u \in {v \in regrouped : diff.target_users[v].groups # <<>>} }
        \cup { Modification("assign_group", u) :
                 u \in {v \in regrouped : diff.changed_users[v].groups # <<>>} }

\* TargetSuiteCRM.users_sync, _sync_groups iterating in the order given
users_sync(state, diff, excluded, order) ==
    LET changed == diff.changed_users
        synced == keys(not_excluded(changed, excluded))
        data == _users_data_after_fetch(state.data, state.server, FALSE)
        updated == update_users(state.server, data, changed, synced)
        mailed == _sync_emails_for_users(
                      _add_missing_emails(updated, changed), data, diff,
                      synced)
        grouped == _sync_groups(Outcome(mailed, data, state.cached,
                                        state.requests),
                                changed, order)
    IN  Outcome(_sync_group_membership_for_users(
                    grouped.server, data, grouped.cached, diff, synced),
                data, grouped.cached,
                grouped.requests \cup users_sync_requests(diff, excluded))

\* mutant: the removed users are deleted, excluded or not
users_cleanup_everyone(state, diff, excluded) ==
    LET data == _users_data_after_fetch(state.data, state.server, FALSE)
        deleted == DOMAIN diff.removed_users
    IN  Outcome([state.server EXCEPT
                    !.users = {e \in @ : \A u \in deleted :
                                             e.id # data[u].id}],
                data, state.cached,
                state.requests
                    \cup {Modification("delete_user", u) : u \in deleted})

\* TargetSuiteCRM.users_cleanup
users_cleanup(state, diff, excluded) ==
    LET data == _users_data_after_fetch(state.data, state.server, FALSE)
        deleted == not_excluded(diff.removed_users, excluded)
    IN  Outcome([state.server EXCEPT
                    !.users = {e \in @ : \A u \in deleted :
                                             e.id # data[u].id}],
                data, state.cached,
                state.requests
                    \cup {Modification("delete_user", u) : u \in deleted})


\* the config TargetBase.calculate_difference builds for a TargetSuiteCRM
\* (__init__.py lines 163-166): group_fields is left to its default
crm_diff_config(groups_patterns) ==
    ModelDifferenceConfig(UserFields \cap supported_user_fields,
                          groups_patterns, GroupFields)

\* the usernames beside the focus user's, as far as the bound goes
Others_in_order == << <<"u", "1">>, <<"u", "3">>, <<"u", "4">> >>

OtherUsers == {Others_in_order[i] : i \in 1..MaxOthers}

\* the SecurityGroup entries of the server at the start: p1 under id 1, d1
\* under id 2, each present or not
CrmGroupSets ==
    { p \cup d :
        p \in { {}, {CrmGroup(1, <<"p", "1">>, NoStr)},
                {CrmGroup(1, <<"p", "1">>, <<"a">>)} },
        d \in { {}, {CrmGroup(2, <<"d", "1">>, NoStr)} } }

\* the source's definition of the group p1
SourceP1 ==
    { Group(<<"p", "1">>, NoStr, <<>>),
      Group(<<"p", "1">>, <<"a">>, <<>>),
      Group(<<"p", "1">>, NoStr, << <<"x">> >>) }

SourceD1 == Group(<<"d", "1">>, NoStr, <<>>)

\* the tuples of groups a source user may hold, given the definition of p1
SourceGroupTuples(p1) == { <<>>, <<p1>>, <<SourceD1>>, <<p1, SourceD1>> }

\* the entry of the focus user on the server, if it has one (id 3)
FocusEntries(groups) ==
    { {} }
    \cup { {CrmUser(3, Focus, "Active", emails, {g.id : g \in related})} :
             emails \in { {}, {<<"x">>} }, related \in SUBSET groups }

\* the record of the focus user in the source, if it has one
FocusRecords(p1) ==
    { EmptyUsers }
    \cup { [u \in {Focus} |-> User(u, NoStr, NoStr, NoStr, email, groups, FALSE)] :
             email \in {<<>>, << <<"x">> >>},
             groups \in SourceGroupTuples(p1) }

\* the id of the entry of another user
OtherId(u) == 3 + CHOOSE i \in 1..Len(Others_in_order) : Others_in_order[i] = u

\* the other users: any of them on the server, none or all of them in the
\* source; their entries are bare, their records hold no group or all the
\* group p1
OtherEntries(on_server) ==
    { CrmUser(OtherId(u), u, "Active", {}, {}) : u \in on_server }

OtherRecords(in_source, groups) ==
    [u \in in_source |-> User(u, NoStr, NoStr, NoStr, <<>>, groups, FALSE)]

\* two dicts with disjoint keys, joined
Join(a, b) ==
    [u \in DOMAIN a \cup DOMAIN b |-> IF u \in DOMAIN a THEN a[u] ELSE b[u]]

CrmPatternLists ==
    { <<Pattern(NoStr, TRUE)>>, <<Pattern(<<"p">>, TRUE)>> }

CrmInit ==
    /\ \E groups \in CrmGroupSets, p1 \in SourceP1,
          on_server \in SUBSET OtherUsers, in_source \in {{}, OtherUsers} :
          \E entry \in FocusEntries(groups), record \in FocusRecords(p1),
             others_groups \in {<<>>, <<p1>>} :
              /\ crm = Entries(entry \cup OtherEntries(on_server), groups,
                               UNION {e.emails : e \in entry})
              /\ source_users =
                     Join(record, OtherRecords(in_source, others_groups))
    /\ crm_before = crm
    /\ source_arg = source_users
    /\ \E focus \in SUBSET {Focus}, others \in {{}, OtherUsers} :
           excluded_usernames = focus \cup others
    /\ \E patterns \in CrmPatternLists : config = crm_diff_config(patterns)
    /\ target_users = EmptyUsers
    /\ difference = NoDifference
    /\ users_data = EmptyDict
    /\ groups_to_id = EmptyDict
    /\ modifications = {}
    /\ pc = "process_stages"
    /\ NoUserRun /\ NoParseRun /\ NoStageRun /\ NoSharedRun
    /\ NoEqRun /\ NoFetchRun /\ NoPageRun /\ NoTokenRun

\* the target as the stage methods find it
crm_state == Outcome(crm, users_data, groups_to_id, modifications)

\* a stage method returned
Returned(outcome, next_stage) ==
    /\ crm' = outcome.server
    /\ users_data' = outcome.data
    /\ groups_to_id' = outcome.cached
    /\ modifications' = outcome.requests
    /\ pc' = next_stage
    /\ UNCHANGED <<source_users, target_users, config, source_arg, difference>>
    /\ UNCHANGED <<crm_before, excluded_usernames>>
    /\ UNCHANGED <<user_vars, config_dict, raised, stage_vars, shared_vars>>
    /\ UNCHANGED <<eq_vars, fetch_vars, page_vars, token_vars>>

\* process_stages: self.calculate_difference(groups_patterns), which
\* fetches the target's users
CrmCalculateDifference ==
    /\ pc = "process_stages"
    /\ target_users' = crm_fetch_users(crm)
    /\ users_data' = fetched_users_data(crm)
    /\ difference' = calculate(source_users, target_users', config)
    /\ source_users' = filter_source(source_users, config)
    /\ pc' = "users_create"
    /\ UNCHANGED <<config, source_arg>>
    /\ UNCHANGED <<crm, crm_before, excluded_usernames, groups_to_id,
                   modifications>>
    /\ UNCHANGED <<user_vars, config_dict, raised, stage_vars, shared_vars>>
    /\ UNCHANGED <<eq_vars, fetch_vars, page_vars, token_vars>>

\* the stage users_create
UsersCreate ==
    /\ pc = "users_create"
    /\ \E order \in Orders(all_groups(difference.added_users)) :
           Returned(users_create(crm_state, difference, order),
                    "users_cleanup")

\* the stage users_cleanup
UsersCleanup ==
    /\ pc = "users_cleanup"
    /\ Returned(users_cleanup(crm_state, difference, excluded_usernames),
                "users_sync")

\* the stage users_sync, the last of the loop of process_stages
UsersSync ==
    /\ pc = "users_sync"
    /\ \E order \in Orders(all_groups(difference.changed_users)) :
           Returned(users_sync(crm_state, difference, excluded_usernames,
                               order),
                    "finished")

CrmNext ==
    \/ CrmCalculateDifference
    \/ UsersCreate
    \/ UsersCleanup
    \/ UsersSync

SpecCrm == CrmInit /\ [][CrmNext]_vars


\* the User entries of a username
EntriesOf(server, u) == {e \in server.users : e.user_name = u}

\* the SecurityGroup entries related to a username's entries
RelatedGroups(server, u) ==
    {g \in server.groups : \E e \in EntriesOf(server, u) : g.id \in e.groups}

\* the names of the groups of a record
GroupNames(user) == {g.name : g \in Range(user.groups)}

\* the groups the stages write: those of the added and of the changed users
WrittenGroups ==
    all_groups(difference.added_users)
        \cup all_groups(difference.changed_users)

(***************************************************************************)
(* C23.  TargetBase.calculate_difference for a TargetSuiteCRM does not     *)
(* classify a user as changed merely because one of the user's source      *)
(* groups has an email address: a source group and a target group with     *)
(* equal name and description never make the user changed.                 *)
(***************************************************************************)
\* the records of k agree on every supported field, the groups in name and
\* description
AgreeButGroupEmail(k) ==
    /\ \A f \in supported_user_fields \ {"groups"} :
           source_users[k][f] = target_users[k][f]
    /\ {<<g.name, g.description>> : g \in Range(source_users[k].groups)}
           = {<<g.name, g.description>> : g \in Range(target_users[k].groups)}
    /\ Len(source_users[k].groups) = Len(target_users[k].groups)

\* C23 as stated: such a user is not changed
C23_AsStated ==
    pc # "process_stages" =>
        \A k \in DOMAIN source_users \cap DOMAIN target_users :
            AgreeButGroupEmail(k) => k \notin Changed


(***************************************************************************)
(* C24.  When process_stages runs against SuiteCRM and a security group    *)
(* with the same name as a source group already exists on the server with  *)
(* a different description, the existing group entry is updated in place   *)
(* (same ID, description set to the source's) and no second SecurityGroup  *)
(* entry with that name is created, both when the group belongs to an      *)
(* added user and when it belongs to a changed user.                       *)
(***************************************************************************)
\* the entry the server held for a written group, under another description
Outdated(entry, group) ==
    /\ entry \in crm_before.groups
    /\ entry.name = group.name
    /\ entry.description # group.description

\* once process_stages is through, every such entry has its id and the
\* source's description, and its name is listed once
C24_UpdatedInPlace ==
    pc = "finished" =>
        \A group \in WrittenGroups :
            \A entry \in crm_before.groups :
                Outdated(entry, group) =>
                    /\ CrmGroup(entry.id, group.name, group.description)
                           \in crm.groups
                    /\ Cardinality({g \in crm.groups : g.name = group.name})
                           = 1

\* the group p1 was outdated both for an added and for a changed user
C24_Witness ==
    /\ pc = "finished"
    /\ \E a \in Added, c \in Changed :
           \E group \in Range(difference.added_users[a].groups)
                            \cap Range(difference.changed_users[c].groups) :
               \E entry \in crm_before.groups : Outdated(entry, group)

(***************************************************************************)
(* C25.  After users_sync completes, for every changed user that is not in *)
(* excluded_usernames and whose group membership differs from the          *)
(* target's, the set of security groups related to that user on the server *)
(* is exactly the set of groups of the merged record in changed_users, and *)
(* no additional User entry is created.                                    *)
(***************************************************************************)
\* the merged record of u holds other groups than the target's record
MembershipDiffers(u) ==
    GroupNames(difference.changed_users[u]) # GroupNames(target_users[u])

\* the step users_sync leaves the groups of the merged record related to
\* the user, by name and description, and the User entries as they were
C25_Membership ==
    [][ pc = "users_sync" =>
          /\ \A u \in Changed \ excluded_usernames :
                 MembershipDiffers(u) =>
                     {<<g.name, g.description>> : g \in RelatedGroups(crm', u)}
                         = {<<g.name, g.description>> :
                               g \in Range(difference.changed_users[u].groups)}
          /\ {e.id : e \in crm'.users} = {e.id : e \in crm.users}
      ]_vars

\* users_sync ran for a user that left one group and joined another
C25_Witness ==
    /\ pc = "finished"
    /\ \E u \in Changed \ excluded_usernames :
           /\ GroupNames(target_users[u])
                  \ GroupNames(difference.changed_users[u]) # {}
           /\ GroupNames(difference.changed_users[u])
                  \ GroupNames(target_users[u]) # {}

(***************************************************************************)
(* C29.  A username listed in excluded_usernames is never modified on the  *)
(* SuiteCRM target by users_cleanup or users_sync: users_cleanup sends no  *)
(* deletion for it even when it is in removed_users, and users_sync sends  *)
(* no user update, email assignment/unassignment or group                  *)
(* assignment/unassignment for it even when it is in changed_users; every  *)
(* removed user not in excluded_usernames is deleted and users outside     *)
(* removed_users are left in place.                                        *)
(***************************************************************************)
\* the requests about users
UserOperations ==
    {"create_user", "update_user", "delete_user", "assign_email",
     "unassign_email", "assign_group", "unassign_group"}

=============================================================================
